---------------------------- MODULE Spec2Model ----------------------------
(***************************************************************************)
(* A model of the JSON-RPC runtime of hediet/typed-json-rpc:               *)
(*   - the message transport base classes (listener slot + unread queue),  *)
(*   - the StreamBasedChannel (id allocation, response demultiplexing,     *)
(*     inbound request / notification processing),                         *)
(*   - the TypedChannel (startListen, dispatch table, request / notify).   *)
(* JavaScript runs one callback at a time; a synchronous call made from    *)
(* inside a callback is modelled by a call stack of frames, so that        *)
(* re-entrant calls interleave exactly where the code allows them.         *)
(***************************************************************************)
EXTENDS Integers, Sequences, FiniteSets, TLC

----------------------------------------------------------------------------
(* Bounds of the model checking runs *)

\* messages that arrive at a transport in one run
MaxMsgs == 3
\* setListener / setReadCallback calls in one run
MaxSets == 3
\* outbound requests issued on one channel in one run
MaxRequests == 2
\* responses the peer sends in one run
MaxResponses == 2
\* requests and notifications the peer sends in one run
MaxInbound == 2
\* messages that reach the transport of a TypedChannel in one run
MaxWire == 2
\* calls of the TypedChannel's methods in one run
MaxCalls == 3
\* request / notify calls in one run of the send path
MaxSends == 2

----------------------------------------------------------------------------
(* Values *)

\* JavaScript's undefined for the listener slot
None == "none"
\* the callbacks a program may install on a bare transport
Listeners == {"L1", "L2"}

\* request ids: a number, a string, JSON null, or absent (undefined)
NumId(n) == [t |-> "num", n |-> n, s |-> ""]
StrId(str) == [t |-> "str", n |-> 0, s |-> str]
NullId == [t |-> "null", n |-> 0, s |-> ""]
NoId == [t |-> "undefined", n |-> 0, s |-> ""]

\* the decimal string of a small natural number
Digits == <<"0", "1", "2", "3", "4", "5", "6", "7", "8", "9">>
NumToStr(n) == Digits[n + 1]

\* `"" + id`: JavaScript's string conversion of a request id
ToStr(id) ==
    CASE id.t = "num" -> NumToStr(id.n)
      [] id.t = "str" -> id.s
      [] id.t = "null" -> "null"
      [] OTHER -> "undefined"

\* no message (the initial value of a slot that remembers a message)
NoMessage == [kind |-> "none"]

VARIABLES
    impl,             \* which base class the transport object is
    unprocessed,      \* _unprocessedMessages / unreadMessages: the unread queue
    messageListener,  \* _messageListener / onMessageCallback: the listener slot
    stack,            \* the JavaScript call stack: frames of running calls
    delivered,        \* history: every hand-over of a message to a callback
    arrived,          \* history: number of messages signalled by the wire so far
    setCalls,         \* history: number of setListener calls made so far
    lastUsedRequestId,     \* StreamBasedChannel._lastUsedRequestId
    unprocessedResponses,  \* StreamBasedChannel._unprocessedResponses: strId -> call
    calls,            \* the outbound requests: allocated id, future, send promise
    rxCount,          \* history: number of responses received so far
    lastRx,           \* history: the response received last
    sent,             \* the messages handed to the transport's send, in order
    requestHandler,   \* StreamBasedChannel._listener is set (a request handler exists)
    handlerTable,     \* TypedChannel._handler: method -> registered handler entry
    sendExceptionDetails,  \* TypedChannel.sendExceptionDetails
    inbound,          \* the requests and notifications received, and how far each got
    wire,             \* history: the messages signalled by the wire, by arrival number
    requestSender,    \* TypedChannel._requestSender is set
    constructed,      \* createChannel's flag: a StreamBasedChannel was constructed
    listening,        \* TypedChannel.onListening is completed
    api,              \* history: the calls of the TypedChannel's methods and their outcome
    er,               \* one wrapped error on its way from a handler to the peer's caller
    unknownNotificationHandler,  \* TypedChannel._unknownNotificationHandler
    disposables,      \* the disposables the registrations and compositions returned
    connectionState,  \* BaseMessageTransport._state.value.state
    factories,        \* the channel factories createChannel returned for the transport
    futures,          \* the TypedChannel.request calls: descriptor, promise, events fired
    peer,             \* the other end: requests its handlers run, messages it has sent
    nodeStream        \* NodeJsMessageStream: the bytes under way to it, its `buffer`, its error log

transportVars == <<impl, unprocessed, messageListener, stack, delivered, arrived, setCalls>>
outboundVars == <<lastUsedRequestId, unprocessedResponses, calls, rxCount, lastRx>>
inboundVars == <<requestHandler, handlerTable, sendExceptionDetails, inbound>>
typedVars == <<wire, requestSender, constructed, listening, api, er>>
otherVars == <<unknownNotificationHandler, disposables, connectionState, factories,
               futures, peer, nodeStream>>

vars == <<impl, unprocessed, messageListener, stack, delivered, arrived, setCalls,
          lastUsedRequestId, unprocessedResponses, calls, rxCount, lastRx, sent,
          requestHandler, handlerTable, sendExceptionDetails, inbound,
          wire, requestSender, constructed, listening, api, er,
          unknownNotificationHandler, disposables, connectionState, factories,
          futures, peer, nodeStream>>

----------------------------------------------------------------------------
(* The call stack *)

\* a setListener call that is in its drain loop; l is the `listener` argument
DrainFrame(l) == [kind |-> "drain", l |-> l, m |-> 0]
\* a listener callback l that is running, handed message m
CallbackFrame(l, m) == [kind |-> "cb", l |-> l, m |-> m]

Top == stack[Len(stack)]
Pop == SubSeq(stack, 1, Len(stack) - 1)

\* Code that can issue calls is running: the embedding program (empty stack)
\* or a listener callback (which may call back into the transport).
CanCall == IF stack = <<>> THEN TRUE ELSE Top.kind = "cb"

\* a setListener call is somewhere on the call stack
DrainInProgress == \E i \in 1..Len(stack) : stack[i].kind = "drain"

----------------------------------------------------------------------------
(* BaseMessageTransport (and its predecessor BaseMessageStream) *)

\* `this._messageListener(msg)`: the callback starts running with the message
InvokeListener(callee, m) ==
    /\ stack' = Append(stack, CallbackFrame(callee, m))
    /\ delivered' = Append(delivered,
                           [m |-> m, to |-> callee, installed |-> messageListener,
                            depth |-> Len(stack)])

\* _dispatchReceivedMessage: `this._unprocessedMessages.length === 0`
HasReadAllQueuedMessages_Always == TRUE
HasReadAllQueuedMessages == unprocessed = <<>>

\* _dispatchReceivedMessage(message) / onMessage(message)
DispatchReceivedMessage(m) ==
    IF HasReadAllQueuedMessages /\ messageListener # None
    THEN /\ InvokeListener(messageListener, m)
         /\ UNCHANGED unprocessed
    ELSE /\ unprocessed' = Append(unprocessed, m)
         /\ UNCHANGED <<stack, delivered>>

\* the loop condition of setListener's drain:
\*   BaseMessageTransport: length > 0 && this._messageListener !== undefined
\*   BaseMessageStream:    length > 0
DrainContinues ==
    IF impl = "transport"
    THEN unprocessed # <<>> /\ messageListener # None
    ELSE unprocessed # <<>>

\* the callback the drain hands the next message to:
\*   BaseMessageTransport: this._messageListener (re-read in every iteration)
\*   BaseMessageStream:    the `callback` argument captured by the call
DrainCallee(frame) ==
    IF impl = "transport" THEN messageListener ELSE frame.l

\* setListener(listener) up to its loop: store the listener, return at once
\* for undefined, otherwise enter the drain loop
SetListenerCall(l) ==
    /\ messageListener' = l
    /\ stack' = IF l = None THEN stack ELSE Append(stack, DrainFrame(l))
    /\ UNCHANGED <<unprocessed, delivered>>

\* one evaluation of the drain loop of the setListener call on top of the
\* stack: shift a message and call the listener, or leave the loop and return
DrainLoop ==
    IF DrainContinues
    THEN /\ unprocessed' = Tail(unprocessed)
         /\ InvokeListener(DrainCallee(Top), Head(unprocessed))
         /\ UNCHANGED messageListener
    ELSE /\ stack' = Pop
         /\ UNCHANGED <<unprocessed, delivered, messageListener>>

----------------------------------------------------------------------------
(* A bare transport driven by arbitrary listeners *)

\* a StreamBasedChannel right after construction, nothing sent or received
InitChannelIdle ==
    /\ lastUsedRequestId = 0
    /\ unprocessedResponses = {}
    /\ calls = <<>>
    /\ rxCount = 0
    /\ lastRx = NoMessage
    /\ sent = <<>>
    /\ inbound = <<>>

\* no wrapped error is under way
NoEr == [stage |-> "none"]

\* the other end has received nothing and has sent nothing
PeerIdle == [taken |-> 0, handling |-> {}, refusing |-> {}, out |-> <<>>]

\* nothing was registered whose disposable is kept, and the transport's
\* connection is open (its state after construction)
NothingToDispose ==
    /\ unknownNotificationHandler = {}
    /\ disposables = <<>>
    /\ connectionState = "open"
    /\ factories = <<>>
    /\ futures = <<>>
    /\ peer = PeerIdle
    /\ nodeStream = [pipe |-> <<>>, buffer |-> <<>>, errors |-> <<>>]

\* no TypedChannel sits on top of the StreamBasedChannel: no request handler
\* was passed to it and nothing of a TypedChannel exists
NoTypedChannel ==
    /\ requestHandler = FALSE
    /\ handlerTable = <<>>
    /\ sendExceptionDetails = FALSE
    /\ wire = <<>>
    /\ requestSender = FALSE
    /\ constructed = FALSE
    /\ listening = FALSE
    /\ api = <<>>
    /\ er = NoEr
    /\ NothingToDispose

\* a transport right after construction: no listener, nothing queued
TransportIdle ==
    /\ unprocessed = <<>>
    /\ messageListener = None
    /\ stack = <<>>
    /\ delivered = <<>>
    /\ arrived = 0
    /\ setCalls = 0

InitTransport ==
    /\ InitChannelIdle
    /\ NoTypedChannel
    /\ TransportIdle

\* the wire signals a message: from the event loop, or synchronously while a
\* listener is running
Arrive ==
    /\ CanCall
    /\ arrived < MaxMsgs
    /\ arrived' = arrived + 1
    /\ DispatchReceivedMessage(arrived + 1)
    /\ UNCHANGED <<impl, messageListener, setCalls>>
    /\ UNCHANGED <<outboundVars, sent, inboundVars, typedVars, otherVars>>

\* the program, or a running listener, installs, replaces or clears the listener
SetListener ==
    /\ CanCall
    /\ setCalls < MaxSets
    /\ \E l \in Listeners \cup {None} :
          /\ setCalls' = setCalls + 1
          /\ SetListenerCall(l)
    /\ UNCHANGED <<impl, arrived>>
    /\ UNCHANGED <<outboundVars, sent, inboundVars, typedVars, otherVars>>

\* the setListener call on top of the stack runs its loop
Drain ==
    /\ stack # <<>>
    /\ Top.kind = "drain"
    /\ DrainLoop
    /\ UNCHANGED <<impl, arrived, setCalls>>
    /\ UNCHANGED <<outboundVars, sent, inboundVars, typedVars, otherVars>>

\* the running listener callback returns to its caller
ListenerReturns ==
    /\ stack # <<>>
    /\ Top.kind = "cb"
    /\ stack' = Pop
    /\ UNCHANGED <<impl, unprocessed, messageListener, delivered, arrived, setCalls>>
    /\ UNCHANGED <<outboundVars, sent, inboundVars, typedVars, otherVars>>

NextTransport == Arrive \/ SetListener \/ Drain \/ ListenerReturns

InitBaseMessageTransport ==
    /\ impl = "transport"
    /\ InitTransport

InitBaseMessageStream ==
    /\ impl = "stream"
    /\ InitTransport

\* a transport derived from BaseMessageTransport
SpecTransport == InitBaseMessageTransport /\ [][NextTransport]_vars
\* a stream derived from BaseMessageStream
SpecStream == InitBaseMessageStream /\ [][NextTransport]_vars

----------------------------------------------------------------------------
(* Properties of the transport *)

DeliveredMsgs == [i \in 1..Len(delivered) |-> delivered[i].m]
ArrivalOrder == [i \in 1..arrived |-> i]

\* C7 (as amended).  Messages are handed to listeners in arrival order, each
\* at most once, none is lost (what was handed over followed by what is still
\* queued is exactly the arrival sequence); and messages stay queued under an
\* installed listener only while a setListener call is still draining them:
\* every setListener call that leaves a listener installed has handed over
\* the whole queue before it returns.
C7_OrderedDrain ==
    /\ DeliveredMsgs \o unprocessed = ArrivalOrder
    /\ (messageListener # None /\ unprocessed # <<>>) => DrainInProgress

\* C7 witness: messages were queued with no listener installed, one
\* setListener call drained them, and a further message that arrived while a
\* listener was running inside that drain was handed over after them; the
\* call has returned.
C7_Witness ==
    /\ stack = <<>>
    /\ arrived = 3
    /\ setCalls = 1
    /\ Len(delivered) = 3
    /\ delivered[1].depth = 1
    /\ delivered[2].depth = 1
    /\ delivered[3].depth = 2

\* C7 (original statement).  Every setListener call has handed over all
\* queued messages when it returns.
C7_Original ==
    [][(IF stack = <<>> THEN FALSE ELSE Top.kind = "drain" /\ stack' = Pop)
          => unprocessed' = <<>>]_vars

\* C8.  A message is only ever handed to the listener that is installed at
\* the moment of the hand-over: after a listener replaced or cleared the
\* listener during a drain, the replaced listener gets nothing further, and
\* nothing is handed over while the listener is cleared.
C8_OnlyInstalledListener ==
    \A i \in 1..Len(delivered) : delivered[i].to = delivered[i].installed

\* C8 witness: a listener replaced itself while it was handed the first of
\* two queued messages, and the second one went to the new listener.
C8_Witness ==
    /\ Len(delivered) >= 2
    /\ delivered[1].to # delivered[2].to
    /\ delivered[2].to = delivered[2].installed
    /\ arrived = 2
    /\ setCalls = 2

----------------------------------------------------------------------------
(* JSON values, by sample *)

\* one sample of every sort of value a serializer can produce
JsonSamples == {"object", "emptyObject", "array", "null", "string", "emptyString",
                "number", "zero", "true", "false", "undefined"}

\* the JSON object { key: value } with one string member, as the channel
\* builds it for the data of its own error responses
ObjectWith(key, value) == "{" \o key \o ": " \o value \o "}"

\* the sorts zod names in its messages: getParsedType
ZodParsedType(v) ==
    CASE v \in {"object", "emptyObject"} -> "object"
      [] v = "array" -> "array"
      [] v = "null" -> "null"
      [] v \in {"string", "emptyString"} -> "string"
      [] v \in {"number", "zero"} -> "number"
      [] v \in {"true", "false"} -> "boolean"
      [] v = "undefined" -> "undefined"
      [] OTHER -> "object"

\* `result.error.message` of a failed safeParse, which is also the string
\* form of the ZodError that parse throws: the JSON text of the issues,
\* JSON.stringify(issues, null, 2), with one issue of code invalid_type whose
\* message is "Required" for undefined
ZodErrorMessage(expected, v) ==
    LET ZodIssueMessage ==
            IF ZodParsedType(v) = "undefined" THEN "Required"
            ELSE "Expected " \o expected \o ", received " \o ZodParsedType(v)
    IN
    "[\n  {\n    \"code\": \"invalid_type\",\n    \"expected\": \"" \o expected
    \o "\",\n    \"received\": \"" \o ZodParsedType(v)
    \o "\",\n    \"path\": [],\n    \"message\": \"" \o ZodIssueMessage
    \o "\"\n  }\n]"

\* the objects the channel builds: { method } and { errors }
ChannelObjects ==
    {ObjectWith("method", m) : m \in {"calculate", "progress", "unknown"}}
       \cup {ObjectWith("errors", ZodErrorMessage(e, v)) :
                e \in {"object", "string"}, v \in JsonSamples}

\* JavaScript's `typeof`
TypeOf(v) ==
    CASE v \in {"object", "emptyObject", "array", "null"} \cup ChannelObjects -> "object"
      [] v \in {"string", "emptyString"} -> "string"
      [] v \in {"number", "zero"} -> "number"
      [] v \in {"true", "false"} -> "boolean"
      [] OTHER -> "undefined"

\* Array.isArray
IsArray(v) == v = "array"

\* JavaScript's truthiness: null, "", 0, false and undefined are falsy
Truthy(v) == v \notin {"null", "emptyString", "zero", "false", "undefined"}

\* `v || undefined`
OrUndefined(v) == IF Truthy(v) THEN v ELSE "undefined"

\* `v || null`
OrNull(v) == IF Truthy(v) THEN v ELSE "null"

----------------------------------------------------------------------------
(* Messages on the wire *)

\* { jsonrpc, id, method, params }: a request, or with id undefined a notification.
\* The field `re` is history: the number of the received request a message
\* answers (0 for a message that answers none).
RequestMsg(id, method, params) ==
    [kind |-> "request", id |-> id, method |-> method, params |-> params,
     hasResult |-> FALSE, hasError |-> FALSE, payload |-> 0, re |-> 0]

\* { jsonrpc, id, result } / { jsonrpc, id, error }: hasResult is `"result" in
\* response`, hasError is the truthiness of response.error; payload identifies
\* the result / error value carried
ResponseMsg(id, hasResult, hasError, payload) ==
    [kind |-> "response", id |-> id, method |-> "", params |-> "undefined",
     hasResult |-> hasResult, hasError |-> hasError, payload |-> payload, re |-> 0]

----------------------------------------------------------------------------
(* StreamBasedChannel: outbound requests and their responses *)

\* the listener StreamBasedChannel's constructor installs on its transport
ChannelListener == "channel"

\* Map.prototype.set / get / delete / has on _unprocessedResponses, a set of
\* (key, call) entries with at most one entry per key
MapHas(map, key) == \E e \in map : e.key = key
MapGet(map, key) == (CHOOSE e \in map : e.key = key).call
MapDelete(map, key) == {e \in map : e.key # key}
MapSet(map, key, call) == MapDelete(map, key) \cup {[key |-> key, call |-> call]}
MapKeys(map) == {e.key : e \in map}

\* _newRequestId: `return this._lastUsedRequestId++` yields the old value and
\* leaves the counter one higher
NewRequestIdCounter_Stuck(counter) == counter
NewRequestIdCounter(counter) == counter + 1

\* (variant: a later settlement replaces an earlier one)
Settle_LastWins(call, state, outcome, from, fromId) ==
    [call EXCEPT !.state = state, !.outcome = outcome, !.from = from, !.fromId = fromId]

\* `resolve` / `reject` of a request's promise: only the first settlement counts
Settle(call, state, outcome, from, fromId) ==
    IF call.state = "pending"
    THEN [call EXCEPT !.state = state, !.outcome = outcome,
                      !.from = from, !.fromId = fromId]
    ELSE call

\* the callback sendRequest stores in _unprocessedResponses: without result
\* and error it calls reject, and then resolve as for an error
ResponseCallback(call, response) ==
    IF response.hasResult
    THEN Settle(call, "resolved", "result", response.payload, response.id)
    ELSE Settle(IF ~response.hasError
                THEN Settle(call, "rejected", "neither", response.payload, response.id)
                ELSE call,
                "resolved", "error", response.payload, response.id)

\* sendRequest(request): allocate the id, store the callback under the id's
\* string form, hand the message to the transport
SendRequestCall(method, params) ==
    LET id == NumId(lastUsedRequestId)
        strId == ToStr(id)
    IN  /\ lastUsedRequestId' = NewRequestIdCounter(lastUsedRequestId)
        /\ unprocessedResponses' = MapSet(unprocessedResponses, strId, Len(calls) + 1)
        /\ calls' = Append(calls,
              [id |-> id, state |-> "pending", outcome |-> "none", from |-> 0,
               fromId |-> NoId, send |-> "inflight"])
        /\ sent' = Append(sent, RequestMsg(id, method, OrUndefined(params)))

\* (variant: the entry stays in the pending table)
SendFailed_KeepsEntry(c) ==
    /\ UNCHANGED unprocessedResponses
    /\ calls' = [calls EXCEPT ![c] =
                    [Settle(@, "rejected", "sendFailed", 0, NoId)
                        EXCEPT !.send = "failed"]]

\* the rejection handler of `this._stream.send(message)`
SendFailed(c) ==
    /\ unprocessedResponses' = MapDelete(unprocessedResponses, ToStr(calls[c].id))
    /\ calls' = [calls EXCEPT ![c] =
                    [Settle(@, "rejected", "sendFailed", 0, NoId)
                        EXCEPT !.send = "failed"]]

\* the key _processResponse looks the callback up with
ResponseKey_Oldest(message) ==
    IF unprocessedResponses = {} THEN ToStr(message.id)
    ELSE (CHOOSE e \in unprocessedResponses :
            \A f \in unprocessedResponses : e.call <= f.call).key
ResponseKey(message) == ToStr(message.id)

\* (variant: a response with an unknown id is taken for the oldest pending
\* request)
ProcessResponse_UnknownIdToOldest(message) ==
    LET strId == IF MapHas(unprocessedResponses, ResponseKey(message))
                    \/ unprocessedResponses = {}
                 THEN ResponseKey(message)
                 ELSE (CHOOSE e \in unprocessedResponses :
                          \A f \in unprocessedResponses : e.call <= f.call).key
    IN
    IF ~MapHas(unprocessedResponses, strId)
    THEN UNCHANGED <<unprocessedResponses, calls>>
    ELSE LET c == MapGet(unprocessedResponses, strId) IN
         /\ unprocessedResponses' = MapDelete(unprocessedResponses, strId)
         /\ calls' = [calls EXCEPT ![c] = ResponseCallback(@, message)]

\* _processResponse(message)
ProcessResponse(message) ==
    LET strId == ResponseKey(message) IN
    IF ~MapHas(unprocessedResponses, strId)
    THEN UNCHANGED <<unprocessedResponses, calls>>
    ELSE LET c == MapGet(unprocessedResponses, strId) IN
         /\ unprocessedResponses' = MapDelete(unprocessedResponses, strId)
         /\ calls' = [calls EXCEPT ![c] = ResponseCallback(@, message)]

----------------------------------------------------------------------------
(* A started StreamBasedChannel: the program issues requests, the transport
   reports the outcome of each send, the peer sends responses *)

\* the ids the peer puts into its responses: every id the channel can
\* allocate, as a number and as a string, and null
ResponseIds ==
    {NumId(n) : n \in 0..(MaxRequests - 1)}
        \cup {StrId(NumToStr(n)) : n \in 0..(MaxRequests - 1)}
        \cup {NullId}

\* result only, error only, neither
ResponseShapes == {<<TRUE, FALSE>>, <<FALSE, TRUE>>, <<FALSE, FALSE>>}

\* the transport of a started channel: listener installed, nothing queued
InitTransportListening ==
    /\ impl = "transport"
    /\ unprocessed = <<>>
    /\ messageListener = ChannelListener
    /\ stack = <<>>
    /\ delivered = <<>>
    /\ arrived = 0
    /\ setCalls = 1

InitOutbound ==
    /\ InitTransportListening
    /\ InitChannelIdle
    /\ NoTypedChannel

\* the program calls sendRequest
SendRequest ==
    /\ Len(calls) < MaxRequests
    /\ \E params \in {"object", "null"} : SendRequestCall("m", params)
    /\ UNCHANGED <<rxCount, lastRx>>
    /\ UNCHANGED <<transportVars, inboundVars, typedVars, otherVars>>

\* the transport fulfils the promise of a send
SendSucceeds ==
    /\ \E c \in 1..Len(calls) :
          /\ calls[c].send = "inflight"
          /\ calls' = [calls EXCEPT ![c].send = "ok"]
    /\ UNCHANGED <<lastUsedRequestId, unprocessedResponses, rxCount, lastRx, sent>>
    /\ UNCHANGED <<transportVars, inboundVars, typedVars, otherVars>>

\* the transport rejects the promise of a send
SendFails ==
    /\ \E c \in 1..Len(calls) :
          /\ calls[c].send = "inflight"
          /\ SendFailed(c)
    /\ UNCHANGED <<lastUsedRequestId, rxCount, lastRx, sent>>
    /\ UNCHANGED <<transportVars, inboundVars, typedVars, otherVars>>

\* a response of the peer arrives; the installed listener hands it to
\* _processResponse
ReceiveResponse ==
    /\ rxCount < MaxResponses
    /\ \E id \in ResponseIds, shape \in ResponseShapes :
          LET message == ResponseMsg(id, shape[1], shape[2], rxCount + 1) IN
          /\ rxCount' = rxCount + 1
          /\ lastRx' = message
          /\ ProcessResponse(message)
    /\ UNCHANGED <<lastUsedRequestId, sent>>
    /\ UNCHANGED <<transportVars, inboundVars, typedVars, otherVars>>

NextOutbound == SendRequest \/ SendSucceeds \/ SendFails \/ ReceiveResponse

SpecOutbound == InitOutbound /\ [][NextOutbound]_vars

----------------------------------------------------------------------------
(* Properties of the outbound side *)

CompletedByResponse(c) == calls[c].outcome \in {"result", "error", "neither"}

\* C1.  Whatever the order of requests, send outcomes and responses: a
\* request's future that was completed by a response was completed by a
\* response whose id has the same string form as the id allocated to that
\* request, it got that response's own result or error, and no response
\* completed two futures.
C1_ResponseDemultiplex ==
    /\ \A c \in 1..Len(calls) :
          CompletedByResponse(c) =>
             /\ ToStr(calls[c].fromId) = ToStr(calls[c].id)
             /\ calls[c].from \in 1..rxCount
    /\ \A c, d \in 1..Len(calls) :
          (c # d /\ CompletedByResponse(c) /\ CompletedByResponse(d))
             => calls[c].from # calls[d].from

\* C1 witness: two requests were outstanding together and the responses came
\* in the opposite order, the first one with its id as a string.
C1_Witness ==
    /\ Len(calls) = 2
    /\ CompletedByResponse(1)
    /\ CompletedByResponse(2)
    /\ calls[1].from = 2
    /\ calls[2].from = 1
    /\ calls[1].fromId.t = "str"

\* the ids allocated so far are 0, 1, 2, ... in the order of the calls
IdsAreSequential ==
    /\ lastUsedRequestId = Len(calls)
    /\ \A c \in 1..Len(calls) : calls[c].id = NumId(c - 1)

\* an entry leaves the pending table only in a step that receives a response
\* with that id, or in which the send of that request fails
RemovalIsJustified ==
    \A e \in unprocessedResponses :
        e \notin unprocessedResponses' =>
            \/ rxCount' = rxCount + 1 /\ ToStr(lastRx'.id) = e.key
            \/ calls[e.call].send = "inflight" /\ calls'[e.call].send = "failed"

\* C2.  Ids are issued from a counter that starts at 0 and grows by one per
\* sendRequest, so no two requests of a channel share an id; and a pending
\* entry is removed only on a response carrying its id or on the failure of
\* its request's send.
C2_UniqueIdsAndRelease ==
    /\ [](IdsAreSequential /\
          \A c, d \in 1..Len(calls) : c # d => ToStr(calls[c].id) # ToStr(calls[d].id))
    /\ [][RemovalIsJustified]_vars

\* C2 witness: two requests were issued; the entry of the first was released
\* by the failure of its send, the entry of the second by a response.
C2_Witness ==
    /\ Len(calls) = 2
    /\ unprocessedResponses = {}
    /\ calls[1].outcome = "sendFailed"
    /\ calls[2].outcome = "result"

----------------------------------------------------------------------------
(* Error codes *)

MethodNotFound == -32601
InvalidRequest == -32600
InvalidParams == -32602
InternalError == -32603
UnexpectedServerError == -32000
GenericApplicationError == -320100

\* optional values (a property that may be absent / undefined)
AbsentNum == [some |-> FALSE, v |-> 0]
SomeNum(n) == [some |-> TRUE, v |-> n]
AbsentStr == [some |-> FALSE, v |-> ""]
SomeStr(str) == [some |-> TRUE, v |-> str]

\* truthiness of an optional number / string: undefined, 0 and "" are falsy
TruthyNum(o) == o.some /\ o.v # 0
TruthyStr(o) == o.some /\ o.v # ""

----------------------------------------------------------------------------
(* Serializers *)

\* sAny, sEmptyObject, sVoidFromNull, and through the zod mapper a zod object
\* schema with optional fields only (it accepts the object samples and
\* rejects every other sort of value) and a zod string schema (it accepts
\* the strings only)
Serializers == {"any", "emptyObject", "voidFromNull", "zodObject", "zodString"}

\* serializeToJson; "throws" when zod's parse rejects the value
SerializeToJson(ser, v) ==
    CASE ser = "any" -> v
      [] ser = "emptyObject" -> "emptyObject"
      [] ser = "voidFromNull" -> "null"
      [] ser = "zodString" -> IF v \in {"string", "emptyString"} THEN v ELSE "throws"
      [] OTHER -> IF v \in {"object", "emptyObject"} THEN v ELSE "throws"

\* the sort of value a zod schema of the model expects
ZodExpected(ser) == IF ser = "zodString" THEN "string" ELSE "object"

\* deserializeFromJson: { hasErrors, value, errorMessage }.  The zod object
\* schema strips the members it does not declare, so of an object the
\* channel built it keeps nothing
DeserializeFromJson(ser, j) ==
    CASE ser = "any" -> [hasErrors |-> FALSE, value |-> j, errorMessage |-> ""]
      [] ser = "emptyObject" ->
            [hasErrors |-> FALSE, value |-> "emptyObject", errorMessage |-> ""]
      [] ser = "voidFromNull" ->
            [hasErrors |-> FALSE, value |-> "undefined", errorMessage |-> ""]
      [] ser = "zodString" ->
            IF j \in {"string", "emptyString"}
            THEN [hasErrors |-> FALSE, value |-> j, errorMessage |-> ""]
            ELSE [hasErrors |-> TRUE, value |-> "undefined",
                  errorMessage |-> ZodErrorMessage("string", j)]
      [] OTHER ->
            IF j \in {"object", "emptyObject"}
            THEN [hasErrors |-> FALSE, value |-> j, errorMessage |-> ""]
            ELSE IF j \in ChannelObjects
            THEN [hasErrors |-> FALSE, value |-> "emptyObject", errorMessage |-> ""]
            ELSE [hasErrors |-> TRUE, value |-> "undefined",
                  errorMessage |-> ZodErrorMessage("object", j)]

----------------------------------------------------------------------------
(* Method descriptors and the dispatch table *)

\* RequestType / NotificationType.  A descriptor is an object with readonly
\* members, and the channel compares descriptors with `!==`: `obj` tells
\* the objects of equal members apart.  It is <<>> for the object the
\* program builds, and every object built from another one (withMethod,
\* optional) or built once more with the same arguments carries the way it
\* was built behind the `obj` of its origin.  Two records are equal exactly
\* if they stand for the same object.
RequestType(method, params, result, error, optional) ==
    [kind |-> "request", method |-> method, paramsSerializer |-> params,
     resultSerializer |-> result, errorSerializer |-> error, isOptional |-> optional,
     obj |-> <<>>]
NotificationType(method, params) ==
    [kind |-> "notification", method |-> method, paramsSerializer |-> params,
     resultSerializer |-> "any", errorSerializer |-> "any", isOptional |-> FALSE,
     obj |-> <<>>]

\* the object `new` returns when the constructor of `type` is called once
\* more with the same arguments: equal members, another object
BuiltAgain(type) == [type EXCEPT !.obj = Append(@, "again")]

\* the method names used on the wire
Methods == {"calculate", "progress", "unknown"}

\* an entry of TypedChannel._handler; kind "none" stands for no entry.  The
\* `handlers` Set of a notification entry is an object of its own, which the
\* disposables of its handlers refer to: `id` tells the Sets apart
NoEntry ==
    [kind |-> "none", type |-> NotificationType("", "any"), handlers |-> {}, id |-> 0]
RequestEntry(type, handler) ==
    [kind |-> "request", type |-> type, handlers |-> {handler}, id |-> 0]
NotificationEntry(type, handlers) ==
    [kind |-> "notification", type |-> type, handlers |-> handlers, id |-> 0]

\* the descriptors of the scenarios, as requestType and notificationType
\* build them: requestType({ method: "calculate", params: <zod object
\* schema>, result: sAny(), error: sAny() }) and notificationType({ method:
\* "progress", params: <zod object schema> })
CalculateType == RequestType("calculate", "zodObject", "any", "any", FALSE)
ProgressType == NotificationType("progress", "zodObject")

----------------------------------------------------------------------------
(* ResponseObject: { result } or { error: { code, message, data } } *)

OkResponse(value) ==
    [hasResult |-> TRUE, result |-> value, code |-> 0, message |-> "", data |-> "undefined"]
ErrorResponse(code, message, data) ==
    [hasResult |-> FALSE, result |-> "undefined", code |-> code, message |-> message,
     data |-> data]

\* what a request handler does: { ok }, a wrapped error { error?, errorMessage?,
\* errorCode? }, a thrown RequestHandlingError, or any other thrown value
OkResult(value) ==
    [k |-> "ok", value |-> value, errorMessage |-> AbsentStr, errorCode |-> AbsentNum]
ErrorResult(error, errorMessage, errorCode) ==
    [k |-> "error", value |-> error, errorMessage |-> errorMessage, errorCode |-> errorCode]
ThrownRequestHandlingError(message, data, code) ==
    [k |-> "throwRHE", value |-> data, errorMessage |-> SomeStr(message),
     errorCode |-> SomeNum(code)]
ThrownOther ==
    [k |-> "throw", value |-> "undefined", errorMessage |-> AbsentStr, errorCode |-> AbsentNum]
\* a thrown value that is not a RequestHandlingError; `exception` is its
\* string form `${exception}`
ThrownValue(exception) ==
    [k |-> "throw", value |-> exception, errorMessage |-> AbsentStr, errorCode |-> AbsentNum]

\* handleRequest, lines 710-717: the response for a wrapped error result
\*   errorData = result.error ? serialize(result.error) : undefined
\*   code = result.errorCode || genericApplicationError
\*   message = result.errorMessage || "An error was returned"
WrappedErrorResponse(type, result) ==
    LET errorData == IF Truthy(result.value)
                     THEN SerializeToJson(type.errorSerializer, result.value)
                     ELSE "undefined"
        code == IF TruthyNum(result.errorCode) THEN result.errorCode.v
                ELSE GenericApplicationError
        message == IF TruthyStr(result.errorMessage) THEN result.errorMessage.v
                   ELSE "An error was returned"
    IN  ErrorResponse(code, message, errorData)

\* handleRequest, lines 741-748: the response for an unexpected exception;
\* `exception` is the string form of the caught value
UnexpectedExceptionResponse_WithDetails(details, exception) ==
    ErrorResponse(UnexpectedServerError,
                  "An exception was thrown while handling a request: " \o exception \o ".",
                  "undefined")
UnexpectedExceptionResponse(details, exception) ==
    ErrorResponse(UnexpectedServerError,
                  IF details
                  THEN "An exception was thrown while handling a request: " \o exception \o "."
                  ELSE "Server has thrown an unexpected exception",
                  "undefined")

\* handleRequest, lines 706-751: the response once the handler has completed
HandlerResponse(type, result, details) ==
    CASE result.k = "ok" ->
            IF SerializeToJson(type.resultSerializer, result.value) = "throws"
            THEN UnexpectedExceptionResponse(details,
                    ZodErrorMessage(ZodExpected(type.resultSerializer), result.value))
            ELSE OkResponse(SerializeToJson(type.resultSerializer, result.value))
      [] result.k = "error" ->
            IF Truthy(result.value)
               /\ SerializeToJson(type.errorSerializer, result.value) = "throws"
            THEN UnexpectedExceptionResponse(details,
                    ZodErrorMessage(ZodExpected(type.errorSerializer), result.value))
            ELSE WrappedErrorResponse(type, result)
      [] result.k = "throwRHE" ->
            ErrorResponse(result.errorCode.v, result.errorMessage.v, "undefined")
      [] OTHER -> UnexpectedExceptionResponse(details, result.value)

\* handleRequest, lines 636-705: the response given without calling a handler,
\* or "invoke" when the handler is called with the deserialized params
\* (variant: invalid params are reported with the data of the other two errors)
RequestLookup_MethodAsData(table, request) ==
    LET entry == table[request.method] IN
    IF entry.kind = "request"
       /\ ~DeserializeFromJson(entry.type.paramsSerializer, request.params).hasErrors
    THEN [invoke |-> TRUE, response |-> OkResponse("undefined")]
    ELSE [invoke |-> FALSE,
          response |-> ErrorResponse(IF entry.kind = "none" THEN MethodNotFound
                                     ELSE IF entry.kind # "request" THEN InvalidRequest
                                     ELSE InvalidParams,
                                     "The request was not handled",
                                     ObjectWith("method", request.method))]
RequestLookup(table, request) ==
    LET entry == table[request.method]
        decodeResult == DeserializeFromJson(entry.type.paramsSerializer, request.params)
    IN
    IF entry.kind = "none"
    THEN [invoke |-> FALSE,
          response |-> ErrorResponse(MethodNotFound,
                          "No request handler for \"" \o request.method \o "\".",
                          ObjectWith("method", request.method))]
    ELSE IF entry.kind # "request"
    THEN [invoke |-> FALSE,
          response |-> ErrorResponse(InvalidRequest,
                          "\"" \o request.method
                             \o "\" is registered as notification, but was sent as request.",
                          ObjectWith("method", request.method))]
    ELSE IF decodeResult.hasErrors
    THEN [invoke |-> FALSE,
          response |-> ErrorResponse(InvalidParams,
                          "Got invalid params: " \o decodeResult.errorMessage,
                          ObjectWith("errors", decodeResult.errorMessage))]
    ELSE [invoke |-> TRUE, response |-> OkResponse("undefined")]

\* handleNotification, lines 759-816: whether the registered handlers are called
NotificationInvokes(table, request) ==
    LET entry == table[request.method] IN
    /\ entry.kind = "notification"
    /\ ~DeserializeFromJson(entry.type.paramsSerializer, request.params).hasErrors

\* handleNotification: the functions called for a notification, which are
\* the unknown-notification handlers if its method has no entry
NotificationHandlers(table, request) ==
    IF NotificationInvokes(table, request) THEN table[request.method].handlers
    ELSE IF table[request.method].kind = "none" THEN unknownNotificationHandler
    ELSE {}

\* _processRequest, lines 131-145: the response message for a ResponseObject
ResponseMessageFor_NullId(id, response) ==
    [kind |-> "response", id |-> NullId, method |-> "", params |-> "undefined",
     hasResult |-> response.hasResult, hasError |-> ~response.hasResult,
     payload |-> response, re |-> 0]
ResponseMessageFor(id, response) ==
    [kind |-> "response", id |-> id, method |-> "", params |-> "undefined",
     hasResult |-> response.hasResult, hasError |-> ~response.hasResult,
     payload |-> response, re |-> 0]

----------------------------------------------------------------------------
(* StreamBasedChannel and TypedChannel: inbound requests and notifications *)

\* no handler outcome yet
NoResult ==
    [k |-> "none", value |-> "undefined", errorMessage |-> AbsentStr, errorCode |-> AbsentNum]

\* the record kept for a received request or notification: the message, its
\* arrival number, how far its processing got, the user handlers invoked for
\* it, those of them that threw, and the outcome of the request handler (or
\* the error object handleRequest returned without calling one)
InboundEntry(message, seq, phase, invoked, threw) ==
    [msg |-> message, seq |-> seq, phase |-> phase, invoked |-> invoked,
     threw |-> threw, result |-> NoResult]

\* (variant: the params are handed over as they were received)
RequestObjectOf_ParamsAsReceived(message) ==
    [method |-> message.method, params |-> message.params]
\* the RequestObject the channel hands to its handler: `message.params || null`
RequestObjectOf(message) == [method |-> message.method, params |-> OrNull(message.params)]

\* _processRequest, lines 114-129: the response of a channel without handler
NoListenerResponse ==
    ErrorResponse(MethodNotFound,
                  "This endpoint does not listen for requests or notifications.", "undefined")

\* the error object handleRequest returned without calling a user handler
Refused(response) ==
    [k |-> "refused", value |-> response.data, errorMessage |-> SomeStr(response.message),
     errorCode |-> SomeNum(response.code)]

\* _processRequest(message) up to its first await.  Without listener there is
\* none before stream.send: the response is sent in the same step.  With a
\* listener it is `await this._listener.handleRequest(...)`: handleRequest
\* has returned an error object without calling a user handler, or it has
\* called the user handler; in both cases the response follows in a later
\* step, when _processRequest is resumed
ProcessRequest(message, seq) ==
    LET n == Len(inbound) + 1
        lookup == RequestLookup(handlerTable, RequestObjectOf(message))
    IN  IF ~requestHandler
        THEN /\ inbound' = Append(inbound, InboundEntry(message, seq, "responded", {}, {}))
             /\ sent' = Append(sent,
                    [ResponseMessageFor(message.id, NoListenerResponse) EXCEPT !.re = n])
        ELSE IF ~lookup.invoke
        THEN /\ inbound' = Append(inbound,
                    [InboundEntry(message, seq, "refusing", {}, {})
                        EXCEPT !.result = Refused(lookup.response)])
             /\ UNCHANGED sent
        ELSE /\ inbound' = Append(inbound,
                    InboundEntry(message, seq, "handling",
                                 handlerTable[message.method].handlers, {}))
             /\ UNCHANGED sent

\* the rest of _processRequest for request number n, for which handleRequest
\* returned an error object without calling a user handler, lines 131-145:
\* stream.send(responseMsg)
RefuseRequest(n) ==
    LET result == inbound[n].result
        response == ErrorResponse(result.errorCode.v, result.errorMessage.v, result.value)
    IN  /\ inbound' = [inbound EXCEPT ![n].phase = "responded"]
        /\ sent' = Append(sent,
                [ResponseMessageFor(inbound[n].msg.id, response) EXCEPT !.re = n])

\* the rest of handleRequest and _processRequest for request number n, once
\* its handler has completed with `result`: stream.send(responseMsg)
CompleteRequest(n, result) ==
    LET type == handlerTable[inbound[n].msg.method].type
        response == HandlerResponse(type, result, sendExceptionDetails)
    IN  /\ inbound' = [inbound EXCEPT ![n].phase = "responded", ![n].result = result]
        /\ sent' = Append(sent,
                [ResponseMessageFor(inbound[n].msg.id, response) EXCEPT !.re = n])

\* the function ContextualizedTypedChannel.registerNotificationHandler
\* registers for a user handler: an async function that awaits the new
\* context and then the user handler.  (A user handler that is an async
\* function itself, registered directly or through a contract, returns a
\* promise in the same way.)
ContextualizedHandler == "async n2"

\* what becomes of a rejected promise nobody handles: the runtime reports it
\* and goes on, or it ends the process
UnhandledRejectionModes == {"unhandled", "terminated"}

\* the process was ended by an unhandled rejection
Terminated == \E n \in 1..Len(inbound) : inbound[n].phase = "terminated"

\* _processNotification(message) with TypedChannel.handleNotification, lines
\* 804-816: the registered functions are called one after the other inside
\* try/catch and what they return is dropped.  The ones in `threw` throw,
\* which is caught and logged.  An async function never throws: it returns
\* a promise, and the user handler behind it runs once its await is over
\* (phase "pending").  Nothing is sent
ProcessNotification(message, seq, threw) ==
    LET handlers == IF requestHandler
                    THEN NotificationHandlers(handlerTable, RequestObjectOf(message))
                    ELSE {}
    IN  /\ inbound' = Append(inbound,
                InboundEntry(message, seq,
                             IF ContextualizedHandler \in handlers
                             THEN "pending" ELSE "dropped",
                             handlers, (threw \cap handlers) \ {ContextualizedHandler}))
        /\ UNCHANGED sent

\* isRequestOrNotification(msg): `msg.method !== undefined`
IsRequestOrNotification(message) == message.kind = "request"

\* the listener of the StreamBasedChannel, line 40: `message.id === undefined`
IsNotification_Never(message) == FALSE
IsNotification(message) == message.id.t = "undefined"

\* (variant: a listener that takes no further message while a request
\* handler has not completed)
ProcessMessage_Serialized(message, seq, threw) ==
    IF \E n \in 1..Len(inbound) : inbound[n].phase = "handling"
    THEN UNCHANGED <<inbound, sent, unprocessedResponses, calls, rxCount, lastRx>>
    ELSE IF IsRequestOrNotification(message)
    THEN /\ IF IsNotification(message)
            THEN ProcessNotification(message, seq, threw)
            ELSE ProcessRequest(message, seq)
         /\ UNCHANGED <<unprocessedResponses, calls, rxCount, lastRx>>
    ELSE /\ ProcessResponse(message)
         /\ rxCount' = rxCount + 1
         /\ lastRx' = message
         /\ UNCHANGED <<inbound, sent>>

\* the listener the StreamBasedChannel's constructor installs, lines 38-48
ProcessMessage(message, seq, threw) ==
    IF IsRequestOrNotification(message)
    THEN /\ IF IsNotification(message)
            THEN ProcessNotification(message, seq, threw)
            ELSE ProcessRequest(message, seq)
         /\ UNCHANGED <<unprocessedResponses, calls, rxCount, lastRx>>
    ELSE /\ ProcessResponse(message)
         /\ rxCount' = rxCount + 1
         /\ lastRx' = message
         /\ UNCHANGED <<inbound, sent>>

----------------------------------------------------------------------------
(* A started channel with a TypedChannel as its request handler: the peer
   sends requests and notifications, the user's request handlers complete *)

\* the ids of the peer's requests: a number and a string
InboundIds == {NumId(7), StrId("7")}
\* the params of the peer's messages: valid, invalid, absent
InboundParams == {"object", "string", "undefined"}

\* the requests (with id) and notifications (id undefined) the peer sends
InboundMessages ==
    {RequestMsg(id, method, params) :
        id \in InboundIds \cup {NoId}, method \in Methods, params \in InboundParams}

\* the user functions registered as handlers
RequestHandlerFunc == "h"
NotificationHandlerFuncs == {"n1", "n2"}

\* a channel with server.calculate registered as request and client.progress
\* as notification with two handlers; "unknown" has no entry
RegisteredTable(resultAndError) ==
    [m \in Methods |->
        CASE m = "calculate" ->
                RequestEntry(RequestType("calculate", "zodObject", resultAndError,
                                         resultAndError, FALSE), RequestHandlerFunc)
          [] m = "progress" -> NotificationEntry(ProgressType, NotificationHandlerFuncs)
          [] OTHER -> NoEntry]

\* the dispatch table when client.progress has a handler registered on the
\* TypedChannel and one registered through a contextualized channel
ContextualizedTable ==
    [RegisteredTable("any") EXCEPT !["progress"].handlers = {"n1", ContextualizedHandler}]

\* what a user request handler may do
HandlerOutcomes ==
    {OkResult("object"), OkResult("string"),
     ErrorResult("object", AbsentStr, AbsentNum),
     ErrorResult("string", SomeStr("m"), SomeNum(5)),
     ErrorResult("zero", SomeStr("m"), SomeNum(5)),
     ThrownRequestHandlingError("m", "object", 5),
     ThrownOther,
     ThrownValue("Error: secret")}

\* a TypedChannel that has been started, nothing called on it since
TypedChannelStarted ==
    /\ wire = <<>>
    /\ requestSender = TRUE
    /\ constructed = TRUE
    /\ listening = TRUE
    /\ api = <<>>
    /\ er = NoEr
    /\ NothingToDispose

InitInbound ==
    /\ InitTransportListening
    /\ InitChannelIdle
    /\ TypedChannelStarted
    /\ requestHandler \in BOOLEAN
    /\ handlerTable \in {RegisteredTable(ser) : ser \in {"any", "zodObject"}}
    /\ sendExceptionDetails \in BOOLEAN

\* a request or notification of the peer arrives and the installed listener
\* processes it
ReceiveInbound ==
    /\ Len(inbound) < MaxInbound
    /\ \E message \in InboundMessages, threw \in SUBSET NotificationHandlerFuncs :
          /\ threw = {} \/ (IsNotification(message) /\ requestHandler
                            /\ NotificationInvokes(handlerTable, RequestObjectOf(message)))
          /\ ProcessMessage(message, Len(inbound) + 1, threw)
    /\ UNCHANGED <<lastUsedRequestId, requestHandler, handlerTable, sendExceptionDetails>>
    /\ UNCHANGED <<transportVars, typedVars, otherVars>>

\* the promise of a user request handler settles (no synchronous code runs)
HandlerCompletes ==
    /\ stack = <<>>
    /\ \E n \in 1..Len(inbound), result \in HandlerOutcomes :
          /\ inbound[n].phase = "handling"
          /\ CompleteRequest(n, result)
    /\ UNCHANGED <<outboundVars, requestHandler, handlerTable, sendExceptionDetails>>
    /\ UNCHANGED <<transportVars, typedVars, otherVars>>

\* _processRequest is resumed for a request handleRequest refused, and sends
\* the response (a microtask: no synchronous code runs)
RefusalIsSent ==
    /\ ~Terminated
    /\ stack = <<>>
    /\ \E n \in 1..Len(inbound) :
          /\ inbound[n].phase = "refusing"
          /\ RefuseRequest(n)
    /\ UNCHANGED <<outboundVars, requestHandler, handlerTable, sendExceptionDetails>>
    /\ UNCHANGED <<transportVars, typedVars, otherVars>>

\* the async function of a contextualized registration goes on after
\* `await this.converters.getNewContext(context)`: it calls the user
\* handler, which returns or throws.  When it throws, the promise the async
\* function returned to handleNotification is rejected, and nothing handles
\* it: handleNotification dropped the promise
ContextualizedHandlerContinues ==
    /\ ~Terminated
    /\ \E n \in 1..Len(inbound), throws \in BOOLEAN :
          /\ inbound[n].phase = "pending"
          /\ inbound' = [inbound EXCEPT
                            ![n].phase = IF throws THEN "rejected" ELSE "dropped",
                            ![n].threw = IF throws THEN @ \cup {ContextualizedHandler}
                                         ELSE @]
    /\ UNCHANGED <<outboundVars, sent, requestHandler, handlerTable, sendExceptionDetails>>
    /\ UNCHANGED <<transportVars, typedVars, otherVars>>

\* the runtime reacts to the rejected promise nobody handles, once the
\* microtasks queued have run (so a refusal that was pending is sent before):
\* it reports the rejection, or it ends the process
UnhandledRejection ==
    /\ ~Terminated
    /\ \A m \in 1..Len(inbound) : inbound[m].phase # "refusing"
    /\ \E n \in 1..Len(inbound), mode \in UnhandledRejectionModes :
          /\ inbound[n].phase = "rejected"
          /\ inbound' = [inbound EXCEPT ![n].phase = mode]
    /\ UNCHANGED <<outboundVars, sent, requestHandler, handlerTable, sendExceptionDetails>>
    /\ UNCHANGED <<transportVars, typedVars, otherVars>>

NextInbound == ReceiveInbound \/ HandlerCompletes \/ RefusalIsSent

SpecInbound == InitInbound /\ [][NextInbound]_vars

----------------------------------------------------------------------------
(* Properties of the inbound side *)

\* the inbound message n is a request (it has an id)
IsInboundRequest(n) == inbound[n].msg.id.t # "undefined"

\* the request's method has a registered request handler and its params
\* deserialize
HasHandlerAndValidParams(n) ==
    /\ IsInboundRequest(n)
    /\ requestHandler
    /\ handlerTable[inbound[n].msg.method].kind = "request"
    /\ ~DeserializeFromJson(handlerTable[inbound[n].msg.method].type.paramsSerializer,
                            OrNull(inbound[n].msg.params)).hasErrors

\* the positions in `sent` of the messages emitted for inbound message n
EmittedFor(n) == {i \in 1..Len(sent) : sent[i].re = n}

\* C3.  For every inbound request whose method has a registered request
\* handler and whose params deserialize: the handler is called; as long as
\* it has not completed nothing is emitted for the request; once it has
\* completed - with a value, a wrapped error, a thrown request-handling
\* error or any other thrown value - exactly one message has been emitted
\* for it, and that message is a response that carries the request's id.
C3_ExactlyOneResponse ==
    \A n \in 1..Len(inbound) :
        HasHandlerAndValidParams(n) =>
            /\ inbound[n].invoked = {RequestHandlerFunc}
            /\ IF inbound[n].result.k = "none"
               THEN EmittedFor(n) = {}
               ELSE /\ Cardinality(EmittedFor(n)) = 1
                    /\ \A i \in EmittedFor(n) :
                          /\ sent[i].kind = "response"
                          /\ sent[i].id = inbound[n].msg.id

\* C3 witness: two requests with the same number / string id were both
\* handled; the handler of the second one threw and completed first, the
\* handler of the first returned a wrapped error, and each got its response.
C3_Witness ==
    /\ Len(inbound) = 2
    /\ HasHandlerAndValidParams(1)
    /\ HasHandlerAndValidParams(2)
    /\ inbound[1].msg.id = NumId(7)
    /\ inbound[2].msg.id = StrId("7")
    /\ inbound[1].result.k = "error"
    /\ inbound[2].result.k = "throw"
    /\ Len(sent) = 2
    /\ sent[1].re = 2
    /\ sent[2].re = 1

\* the step received a notification
ReceivedNotification ==
    /\ Len(inbound') = Len(inbound) + 1
    /\ inbound'[Len(inbound')].msg.id.t = "undefined"

\* C4.  The step in which a notification is received and processed hands
\* nothing to the transport, whatever its method and params and whatever its
\* handlers do; and no message the channel ever sends is emitted for a
\* notification: what was sent is one response per answered request.
C4_NotificationsSendNothing ==
    /\ [](/\ \A i \in 1..Len(sent) : sent[i].re # 0 /\ IsInboundRequest(sent[i].re)
          /\ Len(sent) = Cardinality({n \in 1..Len(inbound) :
                                         IsInboundRequest(n) /\ inbound[n].phase = "responded"}))
    /\ [][ReceivedNotification => sent' = sent]_vars

\* C4 witness: a notification whose handlers were called, one of them
\* throwing, and a notification for a method registered as request; nothing
\* was sent.
C4_Witness ==
    /\ Len(inbound) = 2
    /\ ~IsInboundRequest(1)
    /\ ~IsInboundRequest(2)
    /\ inbound[1].invoked = NotificationHandlerFuncs
    /\ inbound[1].threw = {"n1"}
    /\ inbound[2].msg.method = "calculate"
    /\ sent = <<>>

----------------------------------------------------------------------------
(* TypedChannel: startListen, registration, request and notify *)

\* history entry for a call of one of the TypedChannel's methods.  For
\* request and notify `params` is what the params serializer produced
\* ("throws" if it threw, "undefined" if it was not asked), for a
\* registration its descriptor and handler, for a contract composition the
\* keys of the implementation object
ApiCall(op, method, outcome, params) ==
    [op |-> op, method |-> method, outcome |-> outcome, params |-> params]

LogCall(op, method, outcome, params) ==
    api' = Append(api, ApiCall(op, method, outcome, params))

\* checkChannel(this._requestSender) throws '"startListen" must be called ...'
CheckChannelThrows_Never == FALSE
CheckChannelThrows == ~requestSender

\* the factory of createChannel throws 'A channel ... was already constructed!'
ConnectThrows_Never == FALSE
ConnectThrows == constructed

\* assertObjectArrayOrNull(val) throws:
\*   val !== null && Array.isArray(val) && typeof val !== "object"
AssertObjectArrayOrNullThrows(val) ==
    val # "null" /\ IsArray(val) /\ TypeOf(val) # "object"

\* sendNotification(notification): no id, no pending entry
SendNotificationCall(method, params) ==
    sent' = Append(sent, RequestMsg(NoId, method, OrUndefined(params)))

\* TypedChannel.request(requestType, args) up to the await of sendRequest
RequestCall(type, args) ==
    LET params == SerializeToJson(type.paramsSerializer, args) IN
    IF CheckChannelThrows
    THEN /\ LogCall("request", type.method, "notStarted", "undefined")
         /\ UNCHANGED <<lastUsedRequestId, unprocessedResponses, calls, sent>>
    ELSE IF params = "throws"
    THEN /\ LogCall("request", type.method, "serializerThrew", params)
         /\ UNCHANGED <<lastUsedRequestId, unprocessedResponses, calls, sent>>
    ELSE IF AssertObjectArrayOrNullThrows(params)
    THEN /\ LogCall("request", type.method, "invalidValue", params)
         /\ UNCHANGED <<lastUsedRequestId, unprocessedResponses, calls, sent>>
    ELSE /\ LogCall("request", type.method, "sent", params)
         /\ SendRequestCall(type.method, params)

\* TypedChannel.notify(notificationType, params)
NotifyCall(type, args) ==
    LET params == SerializeToJson(type.paramsSerializer, args) IN
    IF CheckChannelThrows
    THEN /\ LogCall("notify", type.method, "notStarted", "undefined")
         /\ UNCHANGED sent
    ELSE IF params = "throws"
    THEN /\ LogCall("notify", type.method, "serializerThrew", params)
         /\ UNCHANGED sent
    ELSE IF AssertObjectArrayOrNullThrows(params)
    THEN /\ LogCall("notify", type.method, "invalidValue", params)
         /\ UNCHANGED sent
    ELSE /\ LogCall("notify", type.method, "sent", params)
         /\ SendNotificationCall(type.method, params)

\* TypedChannel.startListen() up to the drain loop of the setListener call
\* made by the StreamBasedChannel's constructor
StartListenCall ==
    IF requestSender
    THEN /\ LogCall("startListen", "", "calledTwice", "undefined")
         /\ UNCHANGED <<constructed, requestHandler, lastUsedRequestId,
                        unprocessedResponses, messageListener, stack, setCalls>>
    ELSE IF ConnectThrows
    THEN /\ LogCall("startListen", "", "alreadyConstructed", "undefined")
         /\ UNCHANGED <<constructed, requestHandler, lastUsedRequestId,
                        unprocessedResponses, messageListener, stack, setCalls>>
    ELSE /\ LogCall("startListen", "", "ok", "undefined")
         /\ constructed' = TRUE
         /\ requestHandler' = TRUE
         /\ lastUsedRequestId' = 0
         /\ unprocessedResponses' = {}
         /\ setCalls' = setCalls + 1
         /\ messageListener' = ChannelListener
         /\ stack' = Append(stack, DrainFrame(ChannelListener))

\* the disposable setAndDeleteOnDispose returns: kind "map" deletes the key
\* `method` from _handler, kind "set" deletes `handler` from the handlers Set
\* `id` of a notification entry, kind "unknown" deletes `handler` from
\* _unknownNotificationHandler; "none" stands for no disposable (the call threw)
SetAndDeleteOnDispose(kind, method, id, handler) ==
    [kind |-> kind, method |-> method, id |-> id, handler |-> handler]
NoDisposable == SetAndDeleteOnDispose("none", "", 0, "")

\* registerRequestHandler(requestType, handler) on the dispatch table `table`
RegisterRequestHandlerResult(table, type, handler) ==
    IF table[type.method].kind # "none"
    THEN [outcome |-> "alreadyRegistered", table |-> table, disposable |-> NoDisposable]
    ELSE [outcome |-> "ok",
          table |-> [table EXCEPT ![type.method] = RequestEntry(type, handler)],
          disposable |-> SetAndDeleteOnDispose("map", type.method, 0, handler)]

\* (variant: a method holds one notification handler, the latest)
RegisterNotificationHandlerResult_Replace(table, type, handler, newId) ==
    [outcome |-> "ok",
     table |-> [table EXCEPT ![type.method] =
                   [NotificationEntry(type, {handler}) EXCEPT !.id = newId]],
     disposable |-> SetAndDeleteOnDispose("set", type.method, newId, handler)]

\* registerNotificationHandler(type, handler) on the dispatch table `table`;
\* a handlers Set created by the call gets the identity `newId`.
\* `registeredHandler.notificationType !== type` compares the objects: the
\* records differ as soon as their `obj` differs, whatever their members
RegisterNotificationHandlerResult(table, type, handler, newId) ==
    LET entry == table[type.method] IN
    IF entry.kind = "none"
    THEN [outcome |-> "ok",
          table |-> [table EXCEPT ![type.method] =
                        [NotificationEntry(type, {handler}) EXCEPT !.id = newId]],
          disposable |-> SetAndDeleteOnDispose("set", type.method, newId, handler)]
    ELSE IF entry.kind # "notification"
    THEN [outcome |-> "registeredAsRequest", table |-> table, disposable |-> NoDisposable]
    ELSE IF entry.type # type
    THEN [outcome |-> "differentType", table |-> table, disposable |-> NoDisposable]
    ELSE [outcome |-> "ok",
          table |-> [table EXCEPT ![type.method].handlers = @ \cup {handler}],
          disposable |-> SetAndDeleteOnDispose("set", type.method, entry.id, handler)]

\* registerRequestHandler(requestType, handler)
RegisterRequestHandlerCall(type, handler) ==
    LET r == RegisterRequestHandlerResult(handlerTable, type, handler) IN
    /\ LogCall("registerRequestHandler", type.method, r.outcome,
               [type |-> type, handler |-> handler])
    /\ handlerTable' = r.table

\* registerNotificationHandler(type, handler)
RegisterNotificationHandlerCall(type, handler) ==
    LET r == RegisterNotificationHandlerResult(handlerTable, type, handler, Len(api) + 1) IN
    /\ LogCall("registerNotificationHandler", type.method, r.outcome,
               [type |-> type, handler |-> handler])
    /\ handlerTable' = r.table

----------------------------------------------------------------------------
(* A TypedChannel on a BaseMessageTransport, from construction on: the
   program registers handlers, calls startListen, request and notify - from
   the event loop or from inside a running handler - while the peer's
   messages reach the transport *)

\* a user handler is running on top of the call stack: the listener was
\* handed a message for which it called user handlers
UserHandlerRunning ==
    IF stack = <<>> THEN FALSE
    ELSE /\ Top.kind = "cb"
         /\ \E n \in 1..Len(inbound) : inbound[n].seq = Top.m /\ inbound[n].invoked # {}

\* user code runs: the embedding program or a user handler
ProgramRuns == stack = <<>> \/ UserHandlerRunning

\* the messages the peer sends: a request, a notification, a response
WireMessages ==
    {RequestMsg(NumId(7), "calculate", "object"),
     RequestMsg(NoId, "progress", "object"),
     ResponseMsg(NumId(0), TRUE, FALSE, 1)}

\* the arguments the program passes to request and notify
StartupArgs == {"object", "string"}

InitStartup ==
    /\ impl = "transport"
    /\ TransportIdle
    /\ InitChannelIdle
    /\ requestHandler = FALSE
    /\ handlerTable = [m \in Methods |-> NoEntry]
    /\ sendExceptionDetails = FALSE
    /\ wire = <<>>
    /\ requestSender = FALSE
    /\ constructed = FALSE
    /\ listening = FALSE
    /\ api = <<>>
    /\ er = NoEr
    /\ NothingToDispose

\* the wire signals a message of the peer; it is queued, or handed to the
\* channel's listener, which processes it
WireArrive ==
    /\ ProgramRuns
    /\ arrived < MaxWire
    /\ \E message \in WireMessages :
          /\ wire' = Append(wire, message)
          /\ arrived' = arrived + 1
          /\ DispatchReceivedMessage(arrived + 1)
          /\ IF HasReadAllQueuedMessages /\ messageListener # None
             THEN ProcessMessage(message, arrived + 1, {})
             ELSE UNCHANGED <<inbound, sent, unprocessedResponses, calls, rxCount, lastRx>>
    /\ UNCHANGED <<impl, messageListener, setCalls, lastUsedRequestId>>
    /\ UNCHANGED <<requestHandler, handlerTable, sendExceptionDetails>>
    /\ UNCHANGED <<requestSender, constructed, listening, api, er, otherVars>>

\* the setListener call made for startListen runs its loop: the next queued
\* message is handed to the channel's listener, or the loop ends, the
\* constructor and connect return, and startListen stores the request sender
\* and completes onListening
StartListenDrain ==
    /\ stack # <<>>
    /\ Top.kind = "drain"
    /\ DrainLoop
    /\ IF DrainContinues
       THEN /\ ProcessMessage(wire[Head(unprocessed)], Head(unprocessed), {})
            /\ UNCHANGED <<requestSender, listening>>
       ELSE /\ requestSender' = TRUE
            /\ listening' = TRUE
            /\ UNCHANGED <<inbound, sent, unprocessedResponses, calls, rxCount, lastRx>>
    /\ UNCHANGED <<impl, arrived, setCalls, lastUsedRequestId>>
    /\ UNCHANGED <<requestHandler, handlerTable, sendExceptionDetails>>
    /\ UNCHANGED <<wire, constructed, api, er, otherVars>>

StartListen ==
    /\ ProgramRuns
    /\ Len(api) < MaxCalls
    /\ StartListenCall
    /\ UNCHANGED <<impl, unprocessed, delivered, arrived>>
    /\ UNCHANGED <<calls, rxCount, lastRx, sent>>
    /\ UNCHANGED <<handlerTable, sendExceptionDetails, inbound>>
    /\ UNCHANGED <<wire, requestSender, listening, er, otherVars>>

Request ==
    /\ ProgramRuns
    /\ Len(api) < MaxCalls
    /\ \E args \in StartupArgs : RequestCall(CalculateType, args)
    /\ UNCHANGED <<rxCount, lastRx>>
    /\ UNCHANGED <<transportVars, inboundVars>>
    /\ UNCHANGED <<wire, requestSender, constructed, listening, er, otherVars>>

Notify ==
    /\ ProgramRuns
    /\ Len(api) < MaxCalls
    /\ \E args \in StartupArgs : NotifyCall(ProgressType, args)
    /\ UNCHANGED <<transportVars, outboundVars, inboundVars>>
    /\ UNCHANGED <<wire, requestSender, constructed, listening, er, otherVars>>

RegisterRequestHandler ==
    /\ ProgramRuns
    /\ Len(api) < MaxCalls
    /\ RegisterRequestHandlerCall(CalculateType, RequestHandlerFunc)
    /\ UNCHANGED <<transportVars, outboundVars, sent>>
    /\ UNCHANGED <<requestHandler, sendExceptionDetails, inbound>>
    /\ UNCHANGED <<wire, requestSender, constructed, listening, er, otherVars>>

RegisterNotificationHandler ==
    /\ ProgramRuns
    /\ Len(api) < MaxCalls
    /\ \E method \in {"calculate", "progress"} :
          RegisterNotificationHandlerCall(NotificationType(method, "zodObject"), "n1")
    /\ UNCHANGED <<transportVars, outboundVars, sent>>
    /\ UNCHANGED <<requestHandler, sendExceptionDetails, inbound>>
    /\ UNCHANGED <<wire, requestSender, constructed, listening, er, otherVars>>

\* the promise of a user request handler is fulfilled with a value (no
\* synchronous code runs)
HandlerReturnsValue ==
    /\ stack = <<>>
    /\ \E n \in 1..Len(inbound) :
          /\ inbound[n].phase = "handling"
          /\ CompleteRequest(n, OkResult("object"))
    /\ UNCHANGED <<outboundVars, requestHandler, handlerTable, sendExceptionDetails>>
    /\ UNCHANGED <<transportVars, typedVars, otherVars>>

NextStartup ==
    \/ WireArrive
    \/ StartListenDrain
    \/ ListenerReturns
    \/ HandlerReturnsValue
    \/ StartListen
    \/ Request
    \/ Notify
    \/ RegisterRequestHandler
    \/ RegisterNotificationHandler
    \/ RefusalIsSent

SpecStartup == InitStartup /\ [][NextStartup]_vars

----------------------------------------------------------------------------
(* Properties of startListen *)

\* the step is a call of one of the TypedChannel's methods
IsCall(ops) == Len(api') = Len(api) + 1 /\ api'[Len(api')].op \in ops

\* the outcome of the call made in this step
CallOutcome == api'[Len(api')].outcome

\* startListen has not been called yet
NotYetStarted == \A i \in 1..Len(api) : api[i].op # "startListen"

\* registration works without startListen: a call for a method without entry
\* succeeds and adds the entry
RegistrationSucceeds ==
    /\ (IsCall({"registerRequestHandler"}) /\ handlerTable["calculate"].kind = "none")
          => /\ CallOutcome = "ok"
             /\ handlerTable'["calculate"].kind = "request"
    /\ (IsCall({"registerNotificationHandler"})
            /\ handlerTable[api'[Len(api')].method].kind = "none")
          => /\ CallOutcome = "ok"
             /\ handlerTable'[api'[Len(api')].method].kind = "notification"

\* request and notify fail and hand nothing to the channel or the transport
SendIsRefused ==
    IsCall({"request", "notify"})
        => /\ CallOutcome = "notStarted"
           /\ UNCHANGED <<sent, calls, unprocessedResponses, lastUsedRequestId>>

\* C5.  As long as startListen has not been called: registering handlers
\* succeeds, request and notify fail with the 'startListen must be called'
\* error and hand nothing to the transport, and no inbound message has been
\* handed to the channel or to a handler - all of them are queued.  Messages
\* are handed to the channel in arrival order, none lost and none twice, and
\* once startListen has returned none is left in the queue.
C5_BufferedUntilStart ==
    /\ [](/\ NotYetStarted =>
               /\ delivered = <<>>
               /\ inbound = <<>>
               /\ sent = <<>>
               /\ unprocessed = ArrivalOrder
          /\ DeliveredMsgs \o unprocessed = ArrivalOrder
          /\ \A a, b \in 1..Len(inbound) : a < b => inbound[a].seq < inbound[b].seq
          /\ requestSender => unprocessed = <<>>)
    /\ [][NotYetStarted => (RegistrationSucceeds /\ SendIsRefused)]_vars

\* C5 witness: before startListen a request was refused and a request
\* handler was registered while two messages reached the transport; then
\* startListen was called, handed both messages over from inside its drain,
\* the first one to the registered handler, and returned.
C5_Witness ==
    /\ stack = <<>>
    /\ requestSender
    /\ Len(api) = 3
    /\ api[1].op = "request"
    /\ api[1].outcome = "notStarted"
    /\ api[2].op = "registerRequestHandler"
    /\ api[2].outcome = "ok"
    /\ api[3].op = "startListen"
    /\ Len(delivered) = 2
    /\ delivered[1].depth = 1
    /\ delivered[2].depth = 1
    /\ Len(inbound) = 2
    /\ inbound[1].invoked = {RequestHandlerFunc}
    /\ sent = <<>>

\* the calls of startListen that went through
SuccessfulStarts == {i \in 1..Len(api) : api[i].op = "startListen" /\ api[i].outcome = "ok"}

\* the first call installs the channel's listener; every later call throws
\* and changes nothing
StartListenOnce ==
    IsCall({"startListen"}) =>
        IF NotYetStarted
        THEN /\ CallOutcome = "ok"
             /\ messageListener = None
             /\ messageListener' = ChannelListener
        ELSE /\ CallOutcome \in {"calledTwice", "alreadyConstructed"}
             /\ UNCHANGED <<messageListener, unprocessed, stack, handlerTable,
                            unprocessedResponses, calls, lastUsedRequestId, sent,
                            requestSender, constructed, listening>>

\* C6.  Only the first startListen call goes through: it installs the
\* channel's listener on the transport, and when it has returned the
\* onListening future is completed and the channel is Listening.  Every
\* later call - also one made from a handler while the first call is still
\* draining the transport's queue - throws and leaves the installed
\* listener, the dispatch table and the outstanding requests unchanged.
C6_StartListenOnce ==
    /\ [](/\ Cardinality(SuccessfulStarts) <= 1
          /\ listening = requestSender
          /\ (SuccessfulStarts # {}) = (messageListener = ChannelListener)
          /\ (SuccessfulStarts # {} /\ stack = <<>>) => listening
          /\ SuccessfulStarts = {} => ~listening)
    /\ [][StartListenOnce]_vars

\* C6 witness: startListen, then a request that is still outstanding, then a
\* second startListen call that threw.
C6_Witness ==
    /\ Len(api) = 3
    /\ api[1].op = "startListen"
    /\ api[1].outcome = "ok"
    /\ api[2].op = "request"
    /\ api[2].outcome = "sent"
    /\ api[3].op = "startListen"
    /\ api[3].outcome = "calledTwice"
    /\ listening
    /\ Len(calls) = 1
    /\ calls[1].state = "pending"
    /\ MapHas(unprocessedResponses, "0")

----------------------------------------------------------------------------
(* The send path of a started TypedChannel: request and notify with every
   serializer and every sort of argument *)

InitSend ==
    /\ InitTransportListening
    /\ InitChannelIdle
    /\ TypedChannelStarted
    /\ requestHandler = TRUE
    /\ handlerTable = [m \in Methods |-> NoEntry]
    /\ sendExceptionDetails = FALSE

\* the program calls request with some descriptor and argument
RequestAny ==
    /\ Len(api) < MaxSends
    /\ \E ser \in Serializers, args \in JsonSamples :
          RequestCall(RequestType("calculate", ser, "any", "any", FALSE), args)
    /\ UNCHANGED <<rxCount, lastRx>>
    /\ UNCHANGED <<transportVars, inboundVars>>
    /\ UNCHANGED <<wire, requestSender, constructed, listening, er, otherVars>>

\* the program calls notify with some descriptor and argument
NotifyAny ==
    /\ Len(api) < MaxSends
    /\ \E ser \in Serializers, args \in JsonSamples :
          NotifyCall(NotificationType("progress", ser), args)
    /\ UNCHANGED <<transportVars, outboundVars, inboundVars>>
    /\ UNCHANGED <<wire, requestSender, constructed, listening, er, otherVars>>

NextSend == RequestAny \/ NotifyAny

SpecSend == InitSend /\ [][NextSend]_vars

\* a JSON object, an array or null
IsObjectArrayOrNull(v) == v \in {"object", "emptyObject", "array", "null"}

\* C9.  A request or notify call whose params serializer produced a value
\* that is not an object, an array or null did not go through, and the
\* params of every request and notification handed to the transport is an
\* object, an array, null or absent.
C9_OnlyObjectArrayOrNull ==
    /\ \A i \in 1..Len(api) :
          (api[i].op \in {"request", "notify"} /\ ~IsObjectArrayOrNull(api[i].params))
              => api[i].outcome # "sent"
    /\ \A i \in 1..Len(sent) :
          sent[i].kind = "request"
              => (IsObjectArrayOrNull(sent[i].params) \/ sent[i].params = "undefined")

----------------------------------------------------------------------------
(* A wrapped error on its way: the handler of one peer returns it, the
   response travels, the other peer's request call completes *)

\* what the caller of TypedChannel.request observes
NoOutcome == [k |-> "none", code |-> 0, message |-> "", data |-> "undefined"]
\* the promise is fulfilled with a value or with OptionalMethodNotFound
ValueOutcome(value) == [k |-> "value", code |-> 0, message |-> "", data |-> value]
SentinelOutcome == [k |-> "OptionalMethodNotFound", code |-> 0, message |-> "",
                    data |-> "undefined"]
\* the promise is rejected with a RequestHandlingError / with another Error
RequestHandlingErrorOutcome(message, data, code) ==
    [k |-> "RequestHandlingError", code |-> code, message |-> message, data |-> data]
ErrorOutcome == [k |-> "Error", code |-> 0, message |-> "", data |-> "undefined"]

\* TypedChannel.request, lines 904-932: what the caller gets for a response
RequestOutcome(type, response) ==
    IF ~response.hasResult
    THEN IF type.isOptional /\ response.code = MethodNotFound
         THEN SentinelOutcome
         ELSE IF response.data # "undefined"
         THEN IF DeserializeFromJson(type.errorSerializer, response.data).hasErrors
              THEN ErrorOutcome
              ELSE RequestHandlingErrorOutcome(response.message,
                      DeserializeFromJson(type.errorSerializer, response.data).value,
                      response.code)
         ELSE RequestHandlingErrorOutcome(response.message, "undefined", response.code)
    ELSE IF DeserializeFromJson(type.resultSerializer, response.result).hasErrors
         THEN ErrorOutcome
         ELSE ValueOutcome(DeserializeFromJson(type.resultSerializer, response.result).value)

\* the callback sendRequest stores, lines 183-196, followed by request's
\* handling of the ResponseObject
CallerOutcome(type, message) ==
    IF message.hasResult \/ message.hasError
    THEN RequestOutcome(type, message.payload)
    ELSE ErrorOutcome

\* the error codes, messages and data values a handler may put into a
\* wrapped error
ErrorCodes == {AbsentNum, SomeNum(0), SomeNum(5), SomeNum(MethodNotFound)}
ErrorMessages == {AbsentStr, SomeStr(""), SomeStr("m")}

\* RequestType.withMethod and NotificationType.withMethod: a new object of
\* the class of `type`; the copy of a RequestType is built without the
\* isOptional argument, which defaults to false
WithMethod(type, method) ==
    [(IF type.kind = "request"
      THEN RequestType(method, type.paramsSerializer, type.resultSerializer,
                       type.errorSerializer, FALSE)
      ELSE NotificationType(method, type.paramsSerializer))
     EXCEPT !.obj = Append(type.obj, "withMethod")]

\* RequestType.optional: a new object
Optional(type) ==
    [RequestType(type.method, type.paramsSerializer, type.resultSerializer,
                 type.errorSerializer, TRUE)
     EXCEPT !.obj = Append(type.obj, "optional")]

\* transform, for one entry of a side of the contract object:
\* `result[key] = req.withMethod(req.method ? req.method : key)`
Transform(key, req) == WithMethod(req, IF req.method # "" THEN req.method ELSE key)

\* the invocable Contract.buildCounterpart exposes for a request descriptor
\* of the other side: what its caller gets for the response `message`
CounterpartOutcome(req, message) ==
    LET outcome == CallerOutcome(req, message) IN
    IF /\ req.isOptional
       /\ outcome.k = "RequestHandlingError"
       /\ outcome.code = MethodNotFound
    THEN SentinelOutcome
    ELSE outcome

\* the ways the caller issues its request: TypedChannel.request with the
\* descriptor, or the counterpart proxy of a contract declaring it
Vias == {"request", "counterpart"}

\* the descriptors of the request: every error serializer, optional or not
ErrorTypes ==
    {IF o THEN Optional(RequestType("calculate", "zodObject", "any", e, FALSE))
          ELSE RequestType("calculate", "zodObject", "any", e, FALSE) :
        e \in Serializers, o \in BOOLEAN}

\* both peers are started and share the descriptor; the callee has a handler
\* registered for it or has no handler at all, the caller is about to send
\* its request
InitErr ==
    /\ InitTransportListening
    /\ InitChannelIdle
    /\ requestHandler = TRUE
    /\ \E type \in ErrorTypes, registered \in BOOLEAN, via \in Vias :
          /\ handlerTable = [m \in Methods |->
                                IF registered /\ m = "calculate"
                                THEN RequestEntry(type, RequestHandlerFunc)
                                ELSE NoEntry]
          /\ er = [stage |-> "request", outcome |-> NoOutcome, type |-> type,
                   via |-> via]
    /\ NothingToDispose
    /\ sendExceptionDetails = FALSE
    /\ wire = <<>>
    /\ requestSender = TRUE
    /\ constructed = TRUE
    /\ listening = TRUE
    /\ api = <<>>

\* the caller's request reaches the callee, whose handler is called; a
\* callee without a handler for the method refuses the request
RequestArrives ==
    /\ er.stage = "request"
    /\ ProcessMessage(RequestMsg(NumId(0), "calculate", "object"), 1, {})
    /\ er' = [er EXCEPT !.stage = IF handlerTable["calculate"].kind = "none"
                                  THEN "refusing" ELSE "handling"]
    /\ UNCHANGED <<lastUsedRequestId, requestHandler, handlerTable, sendExceptionDetails>>
    /\ UNCHANGED <<transportVars, wire, requestSender, constructed, listening, api, otherVars>>

\* the handler returns a wrapped error { error?, errorMessage?, errorCode? }
\* (one of error and errorMessage is present); the response is sent
HandlerReturnsError ==
    /\ er.stage = "handling"
    /\ \E d \in JsonSamples, m \in ErrorMessages, c \in ErrorCodes :
          /\ d # "undefined" \/ m.some
          /\ CompleteRequest(1, ErrorResult(d, m, c))
    /\ er' = [er EXCEPT !.stage = "responded"]
    /\ UNCHANGED <<outboundVars, requestHandler, handlerTable, sendExceptionDetails>>
    /\ UNCHANGED <<transportVars, wire, requestSender, constructed, listening, api, otherVars>>

\* the callee's _processRequest is resumed and sends the refusal
CalleeRefuses ==
    /\ er.stage = "refusing"
    /\ RefuseRequest(1)
    /\ er' = [er EXCEPT !.stage = "responded"]
    /\ UNCHANGED <<outboundVars, requestHandler, handlerTable, sendExceptionDetails>>
    /\ UNCHANGED <<transportVars, wire, requestSender, constructed, listening, api, otherVars>>

\* the response reaches the caller, whose request call completes
CallerReceives ==
    /\ er.stage = "responded"
    /\ er' = [er EXCEPT !.stage = "done",
                        !.outcome = IF er.via = "counterpart"
                                    THEN CounterpartOutcome(Transform("calculate", er.type),
                                                            sent[1])
                                    ELSE CallerOutcome(er.type, sent[1])]
    /\ UNCHANGED <<transportVars, outboundVars, sent, inboundVars>>
    /\ UNCHANGED <<wire, requestSender, constructed, listening, api, otherVars>>

NextErr == RequestArrives \/ HandlerReturnsError \/ CalleeRefuses \/ CallerReceives

SpecErr == InitErr /\ [][NextErr]_vars

\* C10.  When the handler returned a wrapped error with code c, message m
\* and data d (which the error serializer can serialize), the caller's
\* request fails with a RequestHandlingError whose code is c
\* (genericApplicationError if none was given), whose message is m ('An
\* error was returned' if none was given) and whose data is
\* deserialize(serialize(d)).
C10_WrappedErrorRoundTrip ==
    er.stage = "done" =>
        LET result == inbound[1].result
            ser == handlerTable["calculate"].type.errorSerializer
        IN  (result.value # "undefined" /\ SerializeToJson(ser, result.value) # "throws")
            => /\ er.outcome.k = "RequestHandlingError"
               /\ er.outcome.code = IF result.errorCode.some THEN result.errorCode.v
                                     ELSE GenericApplicationError
               /\ er.outcome.message = IF result.errorMessage.some THEN result.errorMessage.v
                                        ELSE "An error was returned"
               /\ er.outcome.data =
                     DeserializeFromJson(ser, SerializeToJson(ser, result.value)).value

----------------------------------------------------------------------------
(* Unexpected exceptions of request handlers *)

\* the inbound requests whose handler threw a value that is not a
\* RequestHandlingError
ThrewUnexpected == {n \in 1..Len(inbound) : inbound[n].result.k = "throw"}

\* the ResponseObject emitted for inbound request n
ResponseTo(n) == sent[CHOOSE i \in EmittedFor(n) : TRUE].payload

\* C11.  A request whose handler threw a value that is not a request-handling
\* error is answered so that the peer's caller observes a request-handling
\* error with code unexpectedServerError; and while sendExceptionDetails is
\* false, the responses to any two such requests have the same message and
\* the same (absent) data, whatever the values thrown.
C11_NoExceptionDetails ==
    /\ \A n \in ThrewUnexpected :
          LET outcome == RequestOutcome(handlerTable[inbound[n].msg.method].type, ResponseTo(n))
          IN  /\ ResponseTo(n).code = UnexpectedServerError
              /\ outcome.k = "RequestHandlingError"
              /\ outcome.code = UnexpectedServerError
    /\ ~sendExceptionDetails =>
          \A n, o \in ThrewUnexpected :
              /\ ResponseTo(n).message = ResponseTo(o).message
              /\ ResponseTo(n).data = ResponseTo(o).data
              /\ ResponseTo(n).data = "undefined"

\* C11 witness: with sendExceptionDetails off, the handlers of two requests
\* threw different values and both responses were sent.
C11_Witness ==
    /\ ~sendExceptionDetails
    /\ Len(inbound) = 2
    /\ ThrewUnexpected = {1, 2}
    /\ inbound[1].result.value # inbound[2].result.value
    /\ Len(sent) = 2


----------------------------------------------------------------------------
(* Optional requests *)

\* the peer answered the caller's TypedChannel.request call with an error
\* whose code is methodNotFound, and the call has completed
AnsweredMethodNotFound ==
    /\ er.stage = "done"
    /\ er.via = "request"
    /\ sent[1].hasError
    /\ ~sent[1].hasResult
    /\ sent[1].payload.code = MethodNotFound

\* C12.  When the peer answers a request with an error whose code is
\* methodNotFound, the caller's future resolves to the OptionalMethodNotFound
\* sentinel if the descriptor is marked optional, and fails with a
\* request-handling error (carrying that code) if it is not.
C12_OptionalMethodNotFound ==
    AnsweredMethodNotFound =>
        IF er.type.isOptional
        THEN er.outcome = SentinelOutcome
        ELSE /\ er.outcome.k = "RequestHandlingError"
             /\ er.outcome.code = MethodNotFound


\* C13.  For a request descriptor that was marked optional when it was
\* passed to contract(), the invocable of the counterpart proxy resolves to
\* the OptionalMethodNotFound sentinel when the peer has no handler for the
\* method.
C13_OptionalThroughContract ==
    (/\ er.stage = "done"
     /\ er.via = "counterpart"
     /\ er.type.isOptional
     /\ handlerTable["calculate"].kind = "none")
        => er.outcome = SentinelOutcome


----------------------------------------------------------------------------
(* Registrations, contract compositions and their disposables on a started
   TypedChannel, and the dispatch of the peer's messages *)

\* the number of calls and inbound messages of a behaviour
MaxOps == 4

\* a disposable the program holds, with history: the number of dispose()
\* calls made so far, the number of the call that returned it, and the
\* dispatch table right before that call.  Contract.registerHandlers'
\* disposable (kind "all") disposes its `parts` one after the other
Held(d, parts) ==
    [kind |-> d.kind, method |-> d.method, id |-> d.id, handler |-> d.handler,
     parts |-> parts, calls |-> 0, at |-> Len(api) + 1, before |-> handlerTable]

\* `set.delete(keyOrItem)` of a setAndDeleteOnDispose disposable, as far as
\* the dispatch table is concerned
DeleteOnDispose(table, d) ==
    CASE d.kind = "map" -> [table EXCEPT ![d.method] = NoEntry]
      [] d.kind = "set" ->
            IF table[d.method].kind = "notification" /\ table[d.method].id = d.id
            THEN [table EXCEPT ![d.method].handlers = @ \ {d.handler}]
            ELSE table
      [] OTHER -> table

\* `disposables.forEach(d => d.dispose())`
RECURSIVE DisposeEach(_, _)
DisposeEach(table, ds) ==
    IF ds = <<>> THEN table
    ELSE DisposeEach(DeleteOnDispose(table, Head(ds)), Tail(ds))

\* dispose() of the i-th disposable the program holds
DisposeCall(i) ==
    LET d == disposables[i] IN
    /\ handlerTable' = IF d.kind = "all" THEN DisposeEach(handlerTable, d.parts)
                       ELSE DeleteOnDispose(handlerTable, d)
    /\ unknownNotificationHandler' =
          IF d.kind = "unknown" THEN unknownNotificationHandler \ {d.handler}
          ELSE unknownNotificationHandler
    /\ disposables' = [disposables EXCEPT ![i].calls = @ + 1]
    /\ LogCall("dispose", d.method, "ok", "undefined")

\* the functions Contract.registerHandlers registers: a new closure for every
\* handler of every composition (n is the number of the composing call)
ContractHandler(n) == "c" \o NumToStr(n)

\* Contract.registerHandlers: the loop over the [key, req] entries of the
\* own side, from the state `acc` on; myInterface is the set of keys for
\* which the implementation object has a function (`myInterface[key]`), and
\* an entry without one is skipped.  A throwing registration ends the loop
RECURSIVE RegisterHandlers(_, _, _, _)
RegisterHandlers(acc, myContract, myInterface, n) ==
    IF myContract = <<>> \/ acc.outcome # "ok" THEN acc
    ELSE LET key == Head(myContract).key
             req == Head(myContract).req
             r == IF req.kind = "request"
                  THEN RegisterRequestHandlerResult(acc.table, req, ContractHandler(n))
                  ELSE RegisterNotificationHandlerResult(acc.table, req,
                                                         ContractHandler(n), n)
         IN  IF key \notin myInterface
             THEN RegisterHandlers(acc, Tail(myContract), myInterface, n)
             ELSE RegisterHandlers(
                     [outcome |-> r.outcome, table |-> r.table,
                      parts |-> IF r.outcome = "ok" THEN Append(acc.parts, r.disposable)
                                ELSE acc.parts],
                     Tail(myContract), myInterface, n)

\* getRegisteredTypes()
GetRegisteredTypes(table) == {table[m].type : m \in {k \in Methods : table[k].kind # "none"}}


\* the descriptors the program registers handlers for: server.calculate and
\* a request named like the notification; client.progress, a descriptor
\* object built once more with the arguments of client.progress, a
\* descriptor with another serializer for the same notification, and a
\* notification named like the request
RegisteredRequestTypes == {CalculateType, RequestType("progress", "any", "any", "any", FALSE)}
RegisteredNotificationTypes ==
    {ProgressType, BuiltAgain(ProgressType), NotificationType("progress", "any"),
     NotificationType("calculate", "zodObject")}

\* the keys of the own side of the contract object
ContractKeys == {"calculate", "onProgress"}

\* the own side of a contract, after transform: `calculate` is declared with
\* a request descriptor without method, which gets the key as method, and
\* `onProgress` with the program's descriptor of the notification
\* "progress", which keeps its method; each entry holds the new object
\* withMethod built
MyContract ==
    <<[key |-> "calculate",
       req |-> Transform("calculate", RequestType("", "zodObject", "any", "any", FALSE))],
      [key |-> "onProgress", req |-> Transform("onProgress", ProgressType)]>>

\* the peer's messages: notifications with valid and with invalid params, a
\* notification without entry, a request
DispatchedMessages ==
    {RequestMsg(NoId, "progress", "object"), RequestMsg(NoId, "progress", "string"),
     RequestMsg(NoId, "unknown", "object"), RequestMsg(NumId(7), "calculate", "object")}

\* user code may make a further call or the peer's next message may arrive
MayAct == Len(api) + Len(inbound) < MaxOps

InitRegistry ==
    /\ InitTransportListening
    /\ InitChannelIdle
    /\ TypedChannelStarted
    /\ requestHandler = TRUE
    /\ handlerTable = [m \in Methods |-> NoEntry]
    /\ sendExceptionDetails = FALSE

\* registerRequestHandler; the program keeps the disposable
RegisterRequestHandlerHeld ==
    /\ MayAct
    /\ \E type \in RegisteredRequestTypes :
          LET r == RegisterRequestHandlerResult(handlerTable, type, RequestHandlerFunc) IN
          /\ RegisterRequestHandlerCall(type, RequestHandlerFunc)
          /\ disposables' = IF r.outcome = "ok"
                            THEN Append(disposables, Held(r.disposable, <<>>))
                            ELSE disposables
    /\ UNCHANGED <<transportVars, outboundVars, sent>>
    /\ UNCHANGED <<requestHandler, sendExceptionDetails, inbound>>
    /\ UNCHANGED <<wire, requestSender, constructed, listening, er>>
    /\ UNCHANGED <<unknownNotificationHandler, connectionState, factories, futures, peer, nodeStream>>

\* registerNotificationHandler; the program keeps the disposable
RegisterNotificationHandlerHeld ==
    /\ MayAct
    /\ \E type \in RegisteredNotificationTypes, handler \in NotificationHandlerFuncs :
          LET r == RegisterNotificationHandlerResult(handlerTable, type, handler,
                                                     Len(api) + 1) IN
          /\ type = ProgressType \/ handler = "n1"
          /\ RegisterNotificationHandlerCall(type, handler)
          /\ disposables' = IF r.outcome = "ok"
                            THEN Append(disposables, Held(r.disposable, <<>>))
                            ELSE disposables
    /\ UNCHANGED <<transportVars, outboundVars, sent>>
    /\ UNCHANGED <<requestHandler, sendExceptionDetails, inbound>>
    /\ UNCHANGED <<wire, requestSender, constructed, listening, er>>
    /\ UNCHANGED <<unknownNotificationHandler, connectionState, factories, futures, peer, nodeStream>>

\* registerUnknownNotificationHandler(handler)
RegisterUnknownNotificationHandler ==
    /\ MayAct
    /\ unknownNotificationHandler' = unknownNotificationHandler \cup {"u"}
    /\ disposables' = Append(disposables,
                             Held(SetAndDeleteOnDispose("unknown", "", 0, "u"), <<>>))
    /\ LogCall("registerUnknownNotificationHandler", "", "ok", "undefined")
    /\ UNCHANGED <<transportVars, outboundVars, sent, inboundVars>>
    /\ UNCHANGED <<wire, requestSender, constructed, listening, er, connectionState, factories>>
    /\ UNCHANGED <<futures, peer, nodeStream>>

\* Contract.registerServer / getServer with an implementation object: the
\* handlers are registered (Contract.getInterface, registerHandlers) and the
\* program keeps the returned disposable
RegisterServer ==
    /\ MayAct
    /\ \E myInterface \in SUBSET ContractKeys :
          LET r == RegisterHandlers([outcome |-> "ok", table |-> handlerTable,
                                     parts |-> <<>>],
                                    MyContract, myInterface, Len(api) + 1)
          IN  /\ handlerTable' = r.table
              /\ LogCall("registerServer", "", r.outcome, myInterface)
              /\ disposables' =
                    IF r.outcome = "ok"
                    THEN Append(disposables,
                                Held(SetAndDeleteOnDispose("all", "", 0, ""), r.parts))
                    ELSE disposables
    /\ UNCHANGED <<transportVars, outboundVars, sent>>
    /\ UNCHANGED <<requestHandler, sendExceptionDetails, inbound>>
    /\ UNCHANGED <<wire, requestSender, constructed, listening, er>>
    /\ UNCHANGED <<unknownNotificationHandler, connectionState, factories, futures, peer, nodeStream>>

\* the program calls dispose() of one of the disposables it holds
Dispose ==
    /\ MayAct
    /\ \E i \in 1..Len(disposables) : DisposeCall(i)
    /\ UNCHANGED <<transportVars, outboundVars, sent>>
    /\ UNCHANGED <<requestHandler, sendExceptionDetails, inbound>>
    /\ UNCHANGED <<wire, requestSender, constructed, listening, er, connectionState, factories>>
    /\ UNCHANGED <<futures, peer, nodeStream>>

\* a message of the peer arrives and the channel's listener processes it: the
\* handlers registered at that moment are called
DispatchInbound ==
    /\ MayAct
    /\ Len(inbound) < MaxInbound
    /\ \E message \in DispatchedMessages : ProcessMessage(message, Len(inbound) + 1, {})
    /\ UNCHANGED <<lastUsedRequestId, requestHandler, handlerTable, sendExceptionDetails>>
    /\ UNCHANGED <<transportVars, typedVars, otherVars>>

NextRegistry ==
    \/ RegisterRequestHandlerHeld
    \/ RegisterNotificationHandlerHeld
    \/ RegisterUnknownNotificationHandler
    \/ RegisterServer
    \/ Dispose
    \/ DispatchInbound
    \/ RefusalIsSent

SpecRegistry == InitRegistry /\ [][NextRegistry]_vars


----------------------------------------------------------------------------
(* Properties of registration *)

\* the call made in this step
LastCall == api'[Len(api')]

\* a registration for a method that cannot take it throws and leaves the
\* dispatch table alone; a further notification handler for the registered
\* descriptor (the same object) is added to the handlers of the method
RegistrationConflicts ==
    /\ (IsCall({"registerRequestHandler"}) /\ handlerTable[LastCall.method].kind # "none")
          => /\ CallOutcome # "ok"
             /\ UNCHANGED <<handlerTable, disposables>>
    /\ IsCall({"registerNotificationHandler"})
          => LET entry == handlerTable[LastCall.method]
                 type == LastCall.params.type
             IN  /\ (entry.kind = "request"
                        \/ (entry.kind = "notification" /\ entry.type # type))
                       => /\ CallOutcome # "ok"
                          /\ UNCHANGED <<handlerTable, disposables>>
                 /\ (entry.kind = "notification" /\ entry.type = type)
                       => /\ CallOutcome = "ok"
                          /\ handlerTable'[LastCall.method] =
                                [entry EXCEPT !.handlers = @ \cup {LastCall.params.handler}]

\* this step processes a notification of the peer for a method that is
\* registered as notification
NotificationDispatched ==
    /\ Len(inbound') = Len(inbound) + 1
    /\ IsNotification(inbound'[Len(inbound')].msg)
    /\ handlerTable[inbound'[Len(inbound')].msg.method].kind = "notification"

\* the params serializer of the registered descriptor accepts the params of
\* the notification processed in this step
DispatchedParamsAccepted ==
    LET request == RequestObjectOf(inbound'[Len(inbound')].msg) IN
    ~DeserializeFromJson(handlerTable[request.method].type.paramsSerializer,
                         request.params).hasErrors

\* the handlers called for the notification processed in this step are
\* exactly the ones registered for its method
InvokesEachRegisteredHandler ==
    inbound'[Len(inbound')].invoked =
        handlerTable[inbound'[Len(inbound')].msg.method].handlers

\* C14.  Registering a request handler for a method that has a dispatch-table
\* entry throws; registering a notification handler for a method registered
\* as request or with a different notification descriptor throws; a further
\* notification handler for the same descriptor is accepted; and an inbound
\* notification for a method registered as notification calls each handler
\* registered for it exactly once if the descriptor's params serializer
\* accepts its params, and no handler otherwise.
C14_RegistrationConflicts ==
    [][/\ RegistrationConflicts
       /\ NotificationDispatched
             => IF DispatchedParamsAccepted
                THEN InvokesEachRegisteredHandler
                ELSE inbound'[Len(inbound')].invoked = {}]_vars

\* C14 as stated: every inbound notification for the method calls each
\* registered handler.
C14_Original ==
    [][/\ RegistrationConflicts
       /\ NotificationDispatched => InvokesEachRegisteredHandler]_vars

\* a registration of a request handler was refused, and so was one of a
\* notification handler for a method registered as request
RequestRegistrationRefused ==
    /\ \E i \in 1..Len(api) :
          api[i].op = "registerRequestHandler" /\ api[i].outcome = "alreadyRegistered"
    /\ \E i \in 1..Len(api) :
          api[i].op = "registerNotificationHandler"
             /\ api[i].outcome = "registeredAsRequest"

\* C14 witness: a notification registration with another descriptor object
\* of equal members was refused, two handlers are registered for progress
\* with the same descriptor, and a notification for it has called both.
C14_Witness ==
    /\ \E i \in 1..Len(api) :
          /\ api[i].op = "registerNotificationHandler"
          /\ api[i].outcome = "differentType"
          /\ api[i].params.type = BuiltAgain(ProgressType)
    /\ \E i \in 1..Len(api) :
          api[i].op = "registerNotificationHandler" /\ api[i].outcome = "ok"
    /\ handlerTable["progress"].handlers = NotificationHandlerFuncs
    /\ \E n \in 1..Len(inbound) : inbound[n].invoked = NotificationHandlerFuncs


----------------------------------------------------------------------------
(* Properties of contract compositions *)

\* C15.  Composing a side of a contract with an implementation object fails
\* with an error if the object lacks the handler of a request descriptor of
\* that side; a missing handler of a notification descriptor is accepted and
\* the notification is not registered.
C15_MissingRequestHandlerFails ==
    [][IsCall({"registerServer"})
          => /\ "calculate" \notin LastCall.params
                   => /\ CallOutcome # "ok"
                      /\ UNCHANGED disposables
             /\ ("calculate" \in LastCall.params /\ "onProgress" \notin LastCall.params
                    /\ handlerTable["calculate"].kind = "none")
                   => /\ CallOutcome = "ok"
                      /\ handlerTable'["progress"] = handlerTable["progress"]]_vars

\* the part of C15 about notifications
MissingNotificationHandlerAccepted ==
    [][(IsCall({"registerServer"})
            /\ "calculate" \in LastCall.params /\ "onProgress" \notin LastCall.params
            /\ handlerTable["calculate"].kind = "none")
          => /\ CallOutcome = "ok"
             /\ handlerTable'["progress"] = handlerTable["progress"]]_vars


\* what can be observed of a dispatch table: getRegisteredTypes, the outcome
\* of a further registration, and what an inbound request or notification
\* for a method leads to
Observations(table) ==
    [types |-> GetRegisteredTypes(table),
     requestRegistrations |->
        [t \in RegisteredRequestTypes |->
            RegisterRequestHandlerResult(table, t, RequestHandlerFunc).outcome],
     notificationRegistrations |->
        [t \in RegisteredNotificationTypes |->
            RegisterNotificationHandlerResult(table, t, "n1", 0).outcome],
     requests |->
        [m \in Methods |-> RequestLookup(table, [method |-> m, params |-> "object"])],
     notifications |->
        [m \in Methods |-> NotificationHandlers(table, [method |-> m, params |-> "object"])]]

\* this step is the first dispose() of the disposable of composition i, and
\* the composition was the program's latest call
DisposesComposition(i) ==
    /\ disposables[i].kind = "all"
    /\ disposables[i].calls = 0
    /\ disposables'[i].calls = 1
    /\ disposables[i].at = Len(api)

\* the handlers of the compositions whose disposable has been called
DisposedHandlers ==
    {ContractHandler(disposables[i].at) :
        i \in {j \in 1..Len(disposables) :
                  disposables[j].kind = "all" /\ disposables[j].calls > 0}}

\* C16.  The disposer of a contract composition removes everything the
\* composition installed: after it the dispatch table is observed (through
\* getRegisteredTypes, later registrations and inbound dispatch) as it was
\* right before the composition, and no handler of the composition is called
\* for a later inbound message.
C16_DisposerRestoresTable ==
    [][/\ \A i \in 1..Len(disposables) :
             DisposesComposition(i)
                => Observations(handlerTable') = Observations(disposables[i].before)
       /\ Len(inbound') = Len(inbound) + 1
             => inbound'[Len(inbound')].invoked \cap DisposedHandlers = {}]_vars

\* the part of C16 about the handlers: none is called after the disposal
DisposedHandlersNotInvoked ==
    [][Len(inbound') = Len(inbound) + 1
          => inbound'[Len(inbound')].invoked \cap DisposedHandlers = {}]_vars


\* this step is a second or later dispose() call of disposable i
DisposesAgain(i) ==
    /\ disposables[i].calls > 0
    /\ disposables'[i].calls = disposables[i].calls + 1

\* C17.  Every disposer is idempotent: a second or later call of it, whatever
\* registrations and disposals were made since the first, changes nothing in
\* the dispatch table.
C17_DisposersIdempotent ==
    [][\A i \in 1..Len(disposables) : DisposesAgain(i) => UNCHANGED handlerTable]_vars


----------------------------------------------------------------------------
(* Failures of outbound requests *)

\* in this step the transport reports that the send of request c failed
SendFailure(c) == calls[c].send = "inflight" /\ calls'[c].send = "failed"

\* after the step the pending table has no entry for request c
EntryRemoved(c) == ~MapHas(unprocessedResponses', ToStr(calls[c].id))

\* after the step the future of request c is rejected with the reason the
\* transport gave for the failure of the send
FailsWithSendFailure(c) ==
    calls'[c].state = "rejected" /\ calls'[c].outcome = "sendFailed"

\* C18.  When the transport's send fails for an outbound request, the
\* request's pending-table entry is removed, and the caller's future fails
\* with the transport's failure reason unless a response with the request's
\* id had completed it before; then the future keeps that outcome.
C18_SendFailureReleases ==
    [][\A c \in 1..Len(calls) :
          SendFailure(c)
             => /\ EntryRemoved(c)
                /\ IF calls[c].state = "pending"
                   THEN FailsWithSendFailure(c)
                   ELSE /\ calls'[c].state = calls[c].state
                        /\ calls'[c].outcome = calls[c].outcome
                        /\ calls'[c].from = calls[c].from]_vars

\* C18 as stated: the future fails with the failure reason in every case.
C18_Original ==
    [][\A c \in 1..Len(calls) :
          SendFailure(c) => (EntryRemoved(c) /\ FailsWithSendFailure(c))]_vars

\* C18 witness: the send of the first request failed while its entry was
\* pending, and its future is rejected; the send of the second failed after
\* a response had completed its future.
C18_Witness ==
    /\ Len(calls) = 2
    /\ calls[1].send = "failed"
    /\ calls[1].outcome = "sendFailed"
    /\ calls[2].send = "failed"
    /\ calls[2].state = "resolved"
    /\ unprocessedResponses = {}


\* in this step a response arrives whose id matches the pending entry of
\* request c
ResponseMatches(c) ==
    /\ rxCount' = rxCount + 1
    /\ MapHas(unprocessedResponses, ToStr(lastRx'.id))
    /\ MapGet(unprocessedResponses, ToStr(lastRx'.id)) = c

\* after the step the future of request c is settled in `state`, for the
\* reason `outcome`, by the response of this step
SettledByResponse(c, state, outcome) ==
    /\ calls[c].state = "pending"
    /\ calls'[c].state = state
    /\ calls'[c].outcome = outcome
    /\ calls'[c].from = lastRx'.payload

\* C19.  A response whose id matches a pending request completes that
\* request's future with its result if it has a result member, with its
\* error if it has no result but an error, and fails it with the
\* protocol-violation error if it has neither; no other request's future is
\* touched, and a future failed this way is never resolved afterwards.
C19_ResponseSettlesFuture ==
    [][/\ \A c \in 1..Len(calls) :
             ResponseMatches(c)
                => /\ IF lastRx'.hasResult THEN SettledByResponse(c, "resolved", "result")
                      ELSE IF lastRx'.hasError
                           THEN SettledByResponse(c, "resolved", "error")
                           ELSE SettledByResponse(c, "rejected", "neither")
                   /\ \A d \in 1..Len(calls) : d # c => calls'[d] = calls[d]
       /\ \A c \in 1..Len(calls) :
             calls[c].outcome = "neither"
                => (calls'[c].state = "rejected" /\ calls'[c].outcome = "neither")]_vars

\* C19 witness: the future of the first request was failed by a response with
\* neither member while the second request was pending, and a later response
\* completed the second with its result.
C19_Witness ==
    /\ Len(calls) = 2
    /\ calls[1].state = "rejected"
    /\ calls[1].outcome = "neither"
    /\ calls[2].state = "resolved"
    /\ calls[2].outcome = "result"
    /\ calls[1].from < calls[2].from


----------------------------------------------------------------------------
(* The transport's connection closes under a StreamBasedChannel *)

\* (variant: closing fails the outstanding requests and empties the table)
OnConnectionClosed_FailsPending ==
    /\ connectionState' = "closed"
    /\ unprocessedResponses' = {}
    /\ calls' = [c \in 1..Len(calls) |-> Settle(calls[c], "rejected", "closed", 0, NoId)]
    /\ UNCHANGED <<lastUsedRequestId, rxCount, lastRx, sent>>
    /\ UNCHANGED <<transportVars, inboundVars, typedVars>>
    /\ UNCHANGED <<unknownNotificationHandler, disposables, factories, futures, peer, nodeStream>>

\* BaseMessageTransport._onConnectionClosed(): the state becomes 'closed';
\* the StreamBasedChannel only passes the transport's state on
OnConnectionClosed ==
    /\ connectionState' = "closed"
    /\ UNCHANGED <<outboundVars, sent>>
    /\ UNCHANGED <<transportVars, inboundVars, typedVars>>
    /\ UNCHANGED <<unknownNotificationHandler, disposables, factories, futures, peer, nodeStream>>

\* a response of the peer to one of the ids the channel can allocate arrives
\* (the transport still hands over what the wire signals)
ReceiveResponseToRequest ==
    /\ rxCount < MaxResponses
    /\ \E n \in 0..(MaxRequests - 1), shape \in ResponseShapes :
          LET message == ResponseMsg(NumId(n), shape[1], shape[2], rxCount + 1) IN
          /\ rxCount' = rxCount + 1
          /\ lastRx' = message
          /\ ProcessResponse(message)
    /\ UNCHANGED <<lastUsedRequestId, sent>>
    /\ UNCHANGED <<transportVars, inboundVars, typedVars, otherVars>>

NextClose ==
    \/ SendRequest
    \/ SendSucceeds
    \/ SendFails
    \/ ReceiveResponseToRequest
    \/ OnConnectionClosed

SpecClose == InitOutbound /\ [][NextClose]_vars

\* C20.  When the transport's connection state becomes closed, the pending
\* table and every request future stay as they are; and on a closed
\* connection a pending future is completed only by a step that delivers a
\* response with its id or the failure of its send.
C20_CloseKeepsRequestsPending ==
    [][/\ (connectionState = "open" /\ connectionState' = "closed")
             => UNCHANGED <<unprocessedResponses, calls>>
       /\ \A c \in 1..Len(calls) :
             (connectionState = "closed" /\ calls[c].state = "pending"
                  /\ calls'[c].state # "pending")
                => (ResponseMatches(c) \/ SendFailure(c))]_vars

\* C20 witness: the connection is closed; of two requests one was completed
\* by a response, the other is still pending with its entry in the table.
C20_Witness ==
    /\ connectionState = "closed"
    /\ Len(calls) = 2
    /\ rxCount = 1
    /\ calls[1].state = "resolved"
    /\ calls[2].state = "pending"
    /\ MapHas(unprocessedResponses, ToStr(calls[2].id))

----------------------------------------------------------------------------
(* Channel factories of one transport *)

\* the number of factories a program obtains for the one transport
MaxFactories == 2

\* the listener the constructor of the n-th StreamBasedChannel installs
ListenerOfChannel(n) == ChannelListener \o NumToStr(n)

\* the StreamBasedChannels constructed on the transport so far
ConstructedChannels == {f \in 1..Len(factories) : factories[f].constructed}

\* StreamBasedChannel.createChannel(stream, logger), also reached through
\* TypedChannel.fromTransport(stream): a factory with a `constructed` flag of
\* its own, initially false
CreateChannelCall ==
    factories' = Append(factories, [constructed |-> FALSE, channel |-> 0])

\* channel.connect(listener) of factory f: throws if this factory's flag is
\* set; otherwise sets it and runs the constructor of StreamBasedChannel,
\* which calls setListener on the transport
ConnectCall(f) ==
    IF factories[f].constructed
    THEN /\ LogCall("connect", f, "alreadyConstructed", messageListener)
         /\ UNCHANGED <<factories, unprocessed, messageListener, stack, delivered>>
    ELSE LET n == Cardinality(ConstructedChannels) + 1 IN
         /\ factories' = [factories EXCEPT ![f] = [constructed |-> TRUE, channel |-> n]]
         /\ SetListenerCall(ListenerOfChannel(n))
         /\ LogCall("connect", f, "ok", messageListener)

\* the program obtains a factory for the transport
CreateChannel ==
    /\ CanCall
    /\ Len(factories) < MaxFactories
    /\ CreateChannelCall
    /\ UNCHANGED <<transportVars, outboundVars, sent, inboundVars, typedVars>>
    /\ UNCHANGED <<unknownNotificationHandler, disposables, connectionState>>
    /\ UNCHANGED <<futures, peer, nodeStream>>

\* the program, or a running listener, materializes a channel through one of
\* the factories
Connect ==
    /\ CanCall
    /\ Len(api) < MaxCalls
    /\ \E f \in 1..Len(factories) : ConnectCall(f)
    /\ UNCHANGED <<impl, arrived, setCalls>>
    /\ UNCHANGED <<outboundVars, sent, inboundVars>>
    /\ UNCHANGED <<wire, requestSender, constructed, listening, er>>
    /\ UNCHANGED <<unknownNotificationHandler, disposables, connectionState>>
    /\ UNCHANGED <<futures, peer, nodeStream>>

NextFactory == CreateChannel \/ Connect \/ Arrive \/ Drain \/ ListenerReturns

SpecFactory == InitBaseMessageTransport /\ [][NextFactory]_vars

\* a connect call is made in this step
Connects == Len(api') = Len(api) + 1 /\ api'[Len(api')].op = "connect"

\* C21: on one transport at most one StreamBasedChannel is ever constructed:
\* once a channel was materialized for the transport, every further connect
\* call, on the same factory or on another factory of the same transport,
\* fails and leaves the transport's installed listener as it was.
C21_OneChannelPerTransport ==
    [][(Connects /\ ConstructedChannels # {})
          => /\ api'[Len(api')].outcome = "alreadyConstructed"
             /\ messageListener' = messageListener]_vars

\* the part of C21 the code keeps: a second connect call on the same factory
\* fails and changes nothing
SameFactoryConnectsOnce ==
    [][\A f \in 1..Len(factories) :
          (Connects /\ api'[Len(api')].method = f /\ factories[f].constructed)
             => /\ api'[Len(api')].outcome = "alreadyConstructed"
                /\ messageListener' = messageListener
                /\ factories' = factories]_vars

----------------------------------------------------------------------------
(* Requests the TypedChannel refuses without calling a handler *)

\* the response message emitted for inbound request n is an error response
\* with this code and data, and it is the only message emitted for n
RefusedWith(n, code, data) ==
    /\ inbound[n].phase = "responded"
    /\ Cardinality(EmittedFor(n)) = 1
    /\ \A i \in EmittedFor(n) :
          /\ sent[i].kind = "response"
          /\ sent[i].hasError /\ ~sent[i].hasResult
          /\ sent[i].payload.code = code
          /\ sent[i].payload.data = data

\* handleRequest returned an error object with this code and data for
\* inbound request n without calling a user handler; nothing is emitted for
\* n until _processRequest is resumed, and then the refusal
RefusedUnhandled(n, code, data) ==
    /\ inbound[n].invoked = {}
    /\ inbound[n].result.k = "refused"
    /\ inbound[n].result.errorCode.v = code
    /\ inbound[n].result.value = data
    /\ IF inbound[n].phase = "refusing"
       THEN EmittedFor(n) = {}
       ELSE RefusedWith(n, code, data)

\* what the params deserializer of the request descriptor registered for the
\* method of inbound request n says of the request's params
ParamsDecodeResult(n) ==
    DeserializeFromJson(handlerTable[inbound[n].msg.method].type.paramsSerializer,
                        OrNull(inbound[n].msg.params))

\* C22.  On a started TypedChannel an inbound request whose method has no
\* entry is answered with methodNotFound, one whose method is registered as
\* notification with invalidRequest, and one whose params the descriptor's
\* params deserializer rejects with invalidParams and the deserializer's
\* error message in data.errors; in each case no user handler is called.
\* (The answer is sent when _processRequest is resumed after its await.)
C22_RefusedRequests ==
    \A n \in 1..Len(inbound) :
        (IsInboundRequest(n) /\ requestHandler) =>
            LET method == inbound[n].msg.method
                entry == handlerTable[method]
            IN  /\ entry.kind = "none" =>
                      RefusedUnhandled(n, MethodNotFound, ObjectWith("method", method))
                /\ entry.kind = "notification" =>
                      RefusedUnhandled(n, InvalidRequest, ObjectWith("method", method))
                /\ (entry.kind = "request" /\ ParamsDecodeResult(n).hasErrors) =>
                      RefusedUnhandled(n, InvalidParams,
                                       ObjectWith("errors", ParamsDecodeResult(n).errorMessage))

\* C22 witness: a request for the method registered as notification and a
\* request for server.calculate with a string as params were both refused,
\* the second with zod's message in data.errors.
C22_Witness ==
    /\ requestHandler
    /\ Len(inbound) = 2
    /\ IsInboundRequest(1) /\ IsInboundRequest(2)
    /\ inbound[1].msg.method = "progress"
    /\ inbound[2].msg.method = "calculate"
    /\ inbound[2].msg.params = "string"
    /\ RefusedWith(1, InvalidRequest, "{method: progress}")
    /\ RefusedWith(2, InvalidParams,
            "{errors: [\n  {\n    \"code\": \"invalid_type\",\n    \"expected\": \"object\",\n    \"received\": \"string\",\n    \"path\": [],\n    \"message\": \"Expected object, received string\"\n  }\n]}")

----------------------------------------------------------------------------
(* A request handler throws a RequestHandlingError *)

\* C23.  If a request handler throws a RequestHandlingError carrying code c,
\* message m and data d, the error response sent to the peer has code c,
\* message m and data d.
C23_ThrownErrorForwarded ==
    \A n \in 1..Len(inbound) :
        inbound[n].result.k = "throwRHE" =>
            \A i \in EmittedFor(n) :
                /\ sent[i].hasError
                /\ sent[i].payload.code = inbound[n].result.errorCode.v
                /\ sent[i].payload.message = inbound[n].result.errorMessage.v
                /\ sent[i].payload.data = inbound[n].result.value

\* the part of C23 the code keeps: code and message are forwarded, and a
\* response is sent
ThrownErrorCodeAndMessageForwarded ==
    \A n \in 1..Len(inbound) :
        inbound[n].result.k = "throwRHE" =>
            /\ EmittedFor(n) # {}
            /\ \A i \in EmittedFor(n) :
                  /\ sent[i].hasError
                  /\ sent[i].payload.code = inbound[n].result.errorCode.v
                  /\ sent[i].payload.message = inbound[n].result.errorMessage.v

----------------------------------------------------------------------------
(* A StreamBasedChannel whose listener is a request handler of the program
   (an IRequestHandler that is not a TypedChannel), or that has none *)

\* the request handler object passed to connect
CustomListener == "listener"

\* what its handleRequest does: it resolves with { result }, it resolves
\* with { error: { code, message, data } }, or it rejects with an exception
\* whose string form is given
ListenerOutcomes ==
    {OkResult("object"), OkResult("null"),
     ErrorResult("object", SomeStr("m"), SomeNum(5)),
     ThrownValue("Error: secret"), ThrownValue("TypeError: password")}

\* (variant: the exception text is passed on to the peer)
ListenerThrewResponse_WithException(exception) ==
    ErrorResponse(InternalError, "An unexpected exception was thrown: " \o exception,
                  "undefined")
\* _processRequest, lines 98-112: the result when handleRequest rejects
ListenerThrewResponse(exception) ==
    ErrorResponse(InternalError, "An unexpected exception was thrown.", "undefined")

\* _processRequest(message) with a custom listener up to the await of
\* handleRequest; without listener the response is sent
ProcessRequestOfListener(message, seq) ==
    IF ~requestHandler
    THEN ProcessRequest(message, seq)
    ELSE /\ inbound' = Append(inbound,
                InboundEntry(message, seq, "handling", {CustomListener}, {}))
         /\ UNCHANGED sent

\* _processNotification(message) with a custom listener: handleNotification
\* is called, what it throws is logged; nothing is sent
ProcessNotificationOfListener(message, seq, threw) ==
    LET handlers == IF requestHandler THEN {CustomListener} ELSE {} IN
    /\ inbound' = Append(inbound,
            InboundEntry(message, seq, "dropped", handlers, threw \cap handlers))
    /\ UNCHANGED sent

\* the rest of _processRequest once handleRequest has settled: the catch
\* block replaces a rejection by the fixed error object, and the response
\* message gets the `result` member if the ResponseObject has one
\* (`"result" in result`) and its `error` member otherwise
CompleteRequestOfListener(n, result) ==
    LET response == IF result.k = "throw" THEN ListenerThrewResponse(result.value)
                    ELSE IF result.k = "error"
                    THEN ErrorResponse(result.errorCode.v, result.errorMessage.v,
                                       result.value)
                    ELSE OkResponse(result.value)
    IN  /\ inbound' = [inbound EXCEPT ![n].phase = "responded", ![n].result = result]
        /\ sent' = Append(sent,
                [ResponseMessageFor(inbound[n].msg.id, response) EXCEPT !.re = n])

InitChannel ==
    /\ InitTransportListening
    /\ InitChannelIdle
    /\ handlerTable = <<>>
    /\ sendExceptionDetails = FALSE
    /\ wire = <<>>
    /\ requestSender = FALSE
    /\ constructed = TRUE
    /\ listening = FALSE
    /\ api = <<>>
    /\ er = NoEr
    /\ NothingToDispose
    /\ requestHandler \in BOOLEAN

\* a request or notification of the peer arrives
ReceiveOfListener ==
    /\ Len(inbound) < MaxInbound
    /\ \E message \in InboundMessages, threw \in SUBSET {CustomListener} :
          /\ threw = {} \/ (IsNotification(message) /\ requestHandler)
          /\ IF IsNotification(message)
             THEN ProcessNotificationOfListener(message, Len(inbound) + 1, threw)
             ELSE ProcessRequestOfListener(message, Len(inbound) + 1)
    /\ UNCHANGED <<outboundVars, requestHandler, handlerTable, sendExceptionDetails>>
    /\ UNCHANGED <<transportVars, typedVars, otherVars>>

\* the promise handleRequest returned settles
ListenerCompletes ==
    /\ \E n \in 1..Len(inbound), result \in ListenerOutcomes :
          /\ inbound[n].phase = "handling"
          /\ CompleteRequestOfListener(n, result)
    /\ UNCHANGED <<outboundVars, requestHandler, handlerTable, sendExceptionDetails>>
    /\ UNCHANGED <<transportVars, typedVars, otherVars>>

NextChannel == ReceiveOfListener \/ ListenerCompletes

SpecChannel == InitChannel /\ [][NextChannel]_vars

\* the message of the response emitted for inbound request n
ResponseMessages(n) == {sent[i].payload.message : i \in EmittedFor(n)}

\* C24.  A StreamBasedChannel constructed without request handler answers an
\* inbound request with methodNotFound; when the installed handler raises,
\* the request is answered with internalError and one fixed message, the same
\* whatever the exception is.
C24_NoHandlerAndRaisingHandler ==
    \A n \in 1..Len(inbound) :
        IsInboundRequest(n) =>
            /\ ~requestHandler => RefusedWith(n, MethodNotFound, "undefined")
            /\ inbound[n].result.k = "throw" =>
                  /\ RefusedWith(n, InternalError, "undefined")
                  /\ ResponseMessages(n) = {"An unexpected exception was thrown."}

\* C24 witness: the handler raised two different exceptions for two requests
\* and both were answered.
C24_Witness ==
    /\ Len(inbound) = 2
    /\ inbound[1].result = ThrownValue("Error: secret")
    /\ inbound[2].result = ThrownValue("TypeError: password")
    /\ Len(sent) = 2

\* the handler resolved with an error object, which was sent as the
\* response's error
ListenerErrorObjectForwarded ==
    \E n \in 1..Len(inbound) :
        /\ inbound[n].result.k = "error"
        /\ RefusedWith(n, 5, "object")
        /\ ResponseMessages(n) = {"m"}

\* C24 witness for the channel without handler: a request was answered.
NoHandlerAnswered ==
    /\ ~requestHandler
    /\ Len(inbound) = 1
    /\ IsInboundRequest(1)
    /\ RefusedWith(1, MethodNotFound, "undefined")

----------------------------------------------------------------------------
(* Two started peers: the program calls TypedChannel.request, the other
   end's request handlers notify through the counterpart proxy and complete,
   the transport hands over what the other end sent in the order it was sent *)

\* the notifications the other end's handlers send in one run
MaxNotes == 2

\* the descriptors the program calls request with
CallTypes ==
    {CalculateType,
     RequestType("calculate", "zodObject", "zodObject", "zodString", FALSE),
     RequestType("unknown", "any", "any", "any", FALSE),
     Optional(RequestType("unknown", "any", "any", "zodString", FALSE))}

\* what the request handlers of the other end complete with
PeerOutcomes ==
    {OkResult("object"), OkResult("string"),
     ErrorResult("object", AbsentStr, AbsentNum),
     ErrorResult("string", SomeStr("m"), SomeNum(5))}

\* the dispatch table of the other end: server.calculate is registered
PeerTable == RegisteredTable("any")

\* a call of TypedChannel.request: its descriptor, the sendRequest call it
\* awaits (0: it threw before sending), the state of its promise, the outcome
\* the caller gets, and the error events fired for it
Future(type, call, state, outcome) ==
    [type |-> type, call |-> call, state |-> state, outcome |-> outcome,
     fired |-> 0, event |-> NoOutcome]

\* `this._requestDidErrorEventEmitter.fire({ error })`
FireRequestDidError(future, outcome) ==
    IF outcome.k = "RequestHandlingError"
    THEN [future EXCEPT !.fired = @ + 1, !.event = outcome]
    ELSE future

\* TypedChannel.request after `await this._requestSender.sendRequest(...)`:
\* a rejection of sendRequest is rethrown; a response is turned into the
\* value, the sentinel or the error of RequestOutcome
RequestContinuation(future, call) ==
    LET outcome == IF call.state = "rejected" THEN ErrorOutcome
                   ELSE RequestOutcome(future.type, call.from)
        state == IF outcome.k \in {"value", "OptionalMethodNotFound"}
                 THEN "fulfilled" ELSE "rejected"
    IN  [FireRequestDidError(future, outcome) EXCEPT !.state = state, !.outcome = outcome]

\* typedChannel.notify(req, args) of the counterpart proxy on the other end,
\* down to stream.send: the message handed to its transport, if any
PeerNotifySends(type, args) ==
    LET params == SerializeToJson(type.paramsSerializer, args) IN
    IF params = "throws" \/ AssertObjectArrayOrNullThrows(params)
    THEN <<>>
    ELSE <<RequestMsg(NoId, type.method, OrUndefined(params))>>

\* the number of the message of the other end the transport hands over next
NextToDeliver_Newest == Len(peer.out)
NextToDeliver == arrived + 1

\* the notifications the other end has sent so far
PeerNotifications == {i \in 1..Len(peer.out) : peer.out[i].kind = "request"}

InitCall ==
    /\ InitTransportListening
    /\ InitChannelIdle
    /\ TypedChannelStarted
    /\ requestHandler = TRUE
    /\ handlerTable = RegisteredTable("any")
    /\ sendExceptionDetails = FALSE

\* the program calls request(type, args), every time with the same descriptor
CallRequest ==
    /\ Len(futures) < MaxRequests
    /\ \E type \in CallTypes, args \in {"object", "string"} :
          /\ IF futures = <<>> THEN TRUE ELSE type = futures[1].type
          /\ RequestCall(type, args)
          /\ futures' = Append(futures,
                IF SerializeToJson(type.paramsSerializer, args) = "throws"
                THEN Future(type, 0, "rejected", ErrorOutcome)
                ELSE Future(type, Len(calls) + 1, "awaiting", NoOutcome))
    /\ UNCHANGED <<rxCount, lastRx>>
    /\ UNCHANGED <<transportVars, inboundVars>>
    /\ UNCHANGED <<wire, requestSender, constructed, listening, er>>
    /\ UNCHANGED <<unknownNotificationHandler, disposables, connectionState, factories, peer, nodeStream>>

\* an error object handleRequest of the other end returned without calling
\* a handler, held by the _processRequest that awaits it
PeerRefusal(id, response) == [id |-> id, response |-> response]

\* the other end receives the next message the program's channel sent, a
\* request: _processRequest runs up to the await of handleRequest, which
\* has started the handler or returned an error object
PeerReceives ==
    /\ peer.taken < Len(sent)
    /\ LET message == sent[peer.taken + 1]
           lookup == RequestLookup(PeerTable, RequestObjectOf(message))
       IN  peer' = [peer EXCEPT
                      !.taken = @ + 1,
                      !.handling = IF lookup.invoke THEN @ \cup {message.id} ELSE @,
                      !.refusing = IF lookup.invoke THEN @
                                   ELSE @ \cup {PeerRefusal(message.id, lookup.response)}]
    /\ UNCHANGED <<transportVars, outboundVars, sent, inboundVars, typedVars>>
    /\ UNCHANGED <<unknownNotificationHandler, disposables, connectionState, factories, futures, nodeStream>>

\* a _processRequest of the other end is resumed after the await of a
\* handleRequest that returned an error object: the response is sent
PeerRefuses ==
    /\ \E r \in peer.refusing :
          peer' = [peer EXCEPT
                     !.refusing = @ \ {r},
                     !.out = Append(@, ResponseMessageFor(r.id, r.response))]
    /\ UNCHANGED <<transportVars, outboundVars, sent, inboundVars, typedVars>>
    /\ UNCHANGED <<unknownNotificationHandler, disposables, connectionState, factories, futures, nodeStream>>

\* a running request handler of the other end calls client.progress(args)
PeerHandlerNotifies ==
    /\ peer.handling # {}
    /\ Cardinality(PeerNotifications) < MaxNotes
    /\ \E args \in {"object", "emptyObject", "string"} :
          peer' = [peer EXCEPT !.out = @ \o PeerNotifySends(ProgressType, args)]
    /\ UNCHANGED <<transportVars, outboundVars, sent, inboundVars, typedVars>>
    /\ UNCHANGED <<unknownNotificationHandler, disposables, connectionState, factories, futures, nodeStream>>

\* a request handler of the other end completes and the response is sent
PeerHandlerCompletes ==
    /\ \E id \in peer.handling, result \in PeerOutcomes :
          peer' = [peer EXCEPT
                     !.handling = @ \ {id},
                     !.out = Append(@, ResponseMessageFor(id,
                                HandlerResponse(PeerTable["calculate"].type, result, FALSE)))]
    /\ UNCHANGED <<transportVars, outboundVars, sent, inboundVars, typedVars>>
    /\ UNCHANGED <<unknownNotificationHandler, disposables, connectionState, factories, futures, nodeStream>>

\* the transport signals the next message of the other end; the channel's
\* listener processes it
Deliver ==
    /\ arrived < Len(peer.out)
    /\ \E threw \in {{}, {"n1"}} :
          LET message == peer.out[NextToDeliver] IN
          /\ threw = {} \/ (IsNotification(message)
                            /\ NotificationInvokes(handlerTable, RequestObjectOf(message)))
          /\ ProcessMessage(message, NextToDeliver, threw)
          /\ wire' = Append(wire, message)
          /\ arrived' = arrived + 1
    /\ UNCHANGED <<impl, unprocessed, messageListener, stack, delivered, setCalls>>
    /\ UNCHANGED <<lastUsedRequestId, requestHandler, handlerTable, sendExceptionDetails>>
    /\ UNCHANGED <<requestSender, constructed, listening, api, er, otherVars>>

\* a request call resumes after its await, sendRequest's promise being settled
RequestContinues ==
    /\ ~Terminated
    /\ \E f \in 1..Len(futures) :
          /\ futures[f].state = "awaiting"
          /\ calls[futures[f].call].state # "pending"
          /\ futures' = [futures EXCEPT ![f] = RequestContinuation(@, calls[futures[f].call])]
    /\ UNCHANGED <<transportVars, outboundVars, sent, inboundVars, typedVars>>
    /\ UNCHANGED <<unknownNotificationHandler, disposables, connectionState, factories, peer, nodeStream>>

NextCall ==
    \/ CallRequest
    \/ PeerReceives
    \/ PeerRefuses
    \/ PeerHandlerNotifies
    \/ PeerHandlerCompletes
    \/ Deliver
    \/ RequestContinues

SpecCall == InitCall /\ [][NextCall]_vars

----------------------------------------------------------------------------
(* Notifications a handler sends before it returns *)

\* the position in the other end's output of the response to sendRequest call c
ResponsePosition(c) ==
    CHOOSE i \in 1..Len(peer.out) :
        peer.out[i].kind = "response" /\ peer.out[i].id = calls[c].id

\* the notifications the other end sent before its response to call c
SentBeforeResponse(c) == {i \in PeerNotifications : i < ResponsePosition(c)}

\* the arrival numbers of the notifications for which both notification
\* handlers of client.progress were invoked, in the order of invocation
InvokedFor ==
    [n \in 1..Len(inbound) |->
        IF inbound[n].invoked = NotificationHandlerFuncs THEN inbound[n].seq ELSE 0]

\* C25.  When a request call has completed with the response of the other
\* end, the program's notification handlers have been invoked for every
\* notification the other end's handlers sent before that response, once
\* each and in the order in which they were sent.
C25_NotificationsBeforeResult ==
    \A f \in 1..Len(futures) :
        (futures[f].call # 0 /\ futures[f].state # "awaiting") =>
            /\ \A i \in SentBeforeResponse(futures[f].call) :
                  Cardinality({n \in 1..Len(inbound) : InvokedFor[n] = i}) = 1
            /\ \A n, m \in 1..Len(inbound) : n < m => inbound[n].seq < inbound[m].seq

\* C25 witness: the handler of the other end sent two notifications and then
\* its result; the program's handlers were invoked for both and the request
\* call was then fulfilled with the value.
C25_Witness ==
    /\ Len(futures) = 1
    /\ futures[1].state = "fulfilled"
    /\ futures[1].outcome = ValueOutcome("object")
    /\ Cardinality(SentBeforeResponse(1)) = 2
    /\ Len(inbound) = 2
    /\ InvokedFor = <<1, 2>>
    /\ peer.out[1].params = "object"
    /\ peer.out[2].params = "emptyObject"

----------------------------------------------------------------------------
(* A started channel that calls and serves: requests, notifications and
   responses of the other end arrive while the program's own calls are
   under way *)

\* the descriptor the program calls request with: a result and error data
\* of the wrong sort fail to deserialize
ServiceType == RequestType("calculate", "zodObject", "zodObject", "zodString", FALSE)

\* what the other end sends: requests and notifications with valid and
\* invalid params, for registered and unknown methods, and for each request
\* of the program a result or an error
ServiceMessages ==
    {RequestMsg(id, method, params) :
        id \in {StrId("7"), NoId}, method \in Methods, params \in {"object", "string"}}
    \cup {ResponseMessageFor(NumId(n), response) :
            n \in 0..(MaxRequests - 1),
            response \in {OkResponse("object"), OkResponse("string"),
                          ErrorResponse(5, "m", "string"),
                          ErrorResponse(5, "m", "object"),
                          ErrorResponse(MethodNotFound, "No request handler", "undefined")}}

\* what the program's request handler completes with
ServiceOutcomes == {OkResult("object"), ErrorResult("object", AbsentStr, AbsentNum), ThrownOther}

\* the program calls request
ServiceCall ==
    /\ ~Terminated
    /\ Len(futures) < MaxRequests
    /\ RequestCall(ServiceType, "object")
    /\ futures' = Append(futures, Future(ServiceType, Len(calls) + 1, "awaiting", NoOutcome))
    /\ UNCHANGED <<rxCount, lastRx>>
    /\ UNCHANGED <<transportVars, inboundVars>>
    /\ UNCHANGED <<wire, requestSender, constructed, listening, er>>
    /\ UNCHANGED <<unknownNotificationHandler, disposables, connectionState, factories, peer, nodeStream>>

\* the transport signals a message of the other end to a process that is
\* still running, be it while a rejected promise waits for the runtime's
\* reaction; the channel's listener processes it, and the notification
\* handlers in `threw` throw when they are called
ServiceReceives ==
    /\ ~Terminated
    /\ arrived < MaxWire
    /\ \E message \in ServiceMessages, threw \in SUBSET {"n1", "n2"} :
          /\ threw = {} \/ (/\ IsNotification(message)
                            /\ threw \subseteq NotificationHandlers(handlerTable,
                                                    RequestObjectOf(message)))
          /\ ProcessMessage(message, arrived + 1, threw)
          /\ wire' = Append(wire, message)
          /\ arrived' = arrived + 1
    /\ UNCHANGED <<impl, unprocessed, messageListener, stack, delivered, setCalls>>
    /\ UNCHANGED <<lastUsedRequestId, requestHandler, handlerTable, sendExceptionDetails>>
    /\ UNCHANGED <<requestSender, constructed, listening, api, er, otherVars>>

\* the promise of the program's request handler settles
ServiceHandlerCompletes ==
    /\ ~Terminated
    /\ \E n \in 1..Len(inbound), result \in ServiceOutcomes :
          /\ inbound[n].phase = "handling"
          /\ CompleteRequest(n, result)
    /\ UNCHANGED <<outboundVars, requestHandler, handlerTable, sendExceptionDetails>>
    /\ UNCHANGED <<transportVars, typedVars, otherVars>>

\* the channel is started with its handlers registered, client.progress
\* with two functions on the TypedChannel, or with one of them registered
\* through a contextualized channel
InitService ==
    /\ InitTransportListening
    /\ InitChannelIdle
    /\ TypedChannelStarted
    /\ requestHandler = TRUE
    /\ handlerTable \in {RegisteredTable("any"), ContextualizedTable}
    /\ sendExceptionDetails = FALSE

NextService ==
    \/ ServiceCall
    \/ ServiceReceives
    \/ ServiceHandlerCompletes
    \/ RequestContinues
    \/ RefusalIsSent
    \/ ContextualizedHandlerContinues
    \/ UnhandledRejection

SpecService == InitService /\ [][NextService]_vars

----------------------------------------------------------------------------
(* Application-level errors leave the channel in service *)

\* the step hands a response to the channel's listener
ReceivesResponse == arrived' = arrived + 1 /\ wire'[arrived'].kind = "response"

\* the response received in this step answers the pending sendRequest call c
AnswersPending(c) ==
    /\ ReceivesResponse
    /\ calls[c].state = "pending"
    /\ ToStr(wire'[arrived'].id) = ToStr(calls[c].id)

\* a step changes a sendRequest call, its entry in the pending table and the
\* request call awaiting it only by delivering the response to it, or by
\* resuming the request call that it has settled
OnlyOwnResponseSettles ==
    /\ \A c \in 1..Len(calls) :
          /\ calls'[c] # calls[c] => AnswersPending(c)
          /\ (MapHas(unprocessedResponses, ToStr(calls[c].id))
                /\ ~MapHas(unprocessedResponses', ToStr(calls[c].id))) => AnswersPending(c)
          /\ AnswersPending(c) => calls'[c].state = "resolved"
    /\ \A f \in 1..Len(futures) :
          futures'[f] # futures[f] => calls[futures[f].call].state # "pending"

\* every inbound message was processed according to the registrations alone:
\* a request with handler and valid params had its handler called and, once
\* that completed, its response; any other request had no handler called and,
\* once _processRequest was resumed, its refusal; a notification had the
\* handlers registered for it called
ProcessedByRegistrations ==
    \A n \in 1..Len(inbound) :
        LET request == RequestObjectOf(inbound[n].msg)
            lookup == RequestLookup(handlerTable, request)
        IN  IF ~IsInboundRequest(n)
            THEN inbound[n].invoked = NotificationHandlers(handlerTable, request)
            ELSE IF lookup.invoke
            THEN /\ inbound[n].invoked = {RequestHandlerFunc}
                 /\ inbound[n].phase = "responded" =>
                       \E i \in 1..Len(sent) :
                          sent[i] = [ResponseMessageFor(inbound[n].msg.id,
                                        HandlerResponse(handlerTable[request.method].type,
                                                        inbound[n].result,
                                                        sendExceptionDetails))
                                     EXCEPT !.re = n]
            ELSE /\ inbound[n].invoked = {}
                 /\ inbound[n].phase = "responded" =>
                       \E i \in 1..Len(sent) :
                          sent[i] = [ResponseMessageFor(inbound[n].msg.id, lookup.response)
                                     EXCEPT !.re = n]

\* every completed request call got what its own response says
CompletedByOwnResponse ==
    \A f \in 1..Len(futures) :
        futures[f].state # "awaiting" =>
            /\ futures[f].outcome = RequestOutcome(futures[f].type, calls[futures[f].call].from)
            /\ \E i \in 1..Len(wire) :
                  /\ wire[i].kind = "response"
                  /\ ToStr(wire[i].id) = ToStr(calls[futures[f].call].id)
                  /\ wire[i].payload = calls[futures[f].call].from

\* C26.  No application-level error takes the channel out of service:
\* whatever errors occur - a throwing handler, an unknown method, invalid
\* params, an error response, a result or error data the caller cannot
\* deserialize - the process that holds the channel goes on, the transport's
\* listener stays installed and the dispatch table stays as it is, a pending
\* request is touched by its own response only, and every message, before or
\* after an error, is processed as the registrations and its own content say.
C26_ErrorsLeaveChannelInService ==
    /\ [](/\ ~Terminated
          /\ messageListener = ChannelListener
          /\ requestSender
          /\ ProcessedByRegistrations
          /\ CompletedByOwnResponse)
    /\ [][/\ handlerTable' = handlerTable
          /\ OnlyOwnResponseSettles]_vars

\* the part of C26 the code keeps: as long as the process runs, every
\* message is processed as the registrations and its own content say and a
\* pending request is touched by its own response only
RunningChannelStaysInService ==
    /\ [](ProcessedByRegistrations /\ CompletedByOwnResponse)
    /\ [][OnlyOwnResponseSettles]_vars

\* a notification handler registered through a contextualized channel threw
\* while a request call was pending, the process was ended, and the call
\* is never completed
PendingCallLostWithProcess ==
    /\ Terminated
    /\ Len(futures) = 1
    /\ futures[1].state = "awaiting"
    /\ calls[futures[1].call].state = "pending"

\* two request calls were pending; the first failed because the result in
\* its response did not deserialize, the second was fulfilled by the
\* response that arrived after that.
TwoCallsSettledIndependently ==
    /\ Len(futures) = 2
    /\ futures[1].outcome = ErrorOutcome
    /\ futures[2].outcome = ValueOutcome("object")
    /\ Len(wire) = 2
    /\ wire[1] = ResponseMessageFor(NumId(0), OkResponse("string"))
    /\ wire[2] = ResponseMessageFor(NumId(1), OkResponse("object"))
    /\ unprocessedResponses = {}

----------------------------------------------------------------------------
(* The "request did error" event *)

\* C27.  For every request call that ends in an error surfaced to its
\* caller the "request did error" event has fired exactly once, carrying the
\* error the caller receives; for a call that is fulfilled, with a value or
\* with the optional-method-not-found sentinel, it has not fired.
C27_EventForEveryError ==
    \A f \in 1..Len(futures) :
        /\ futures[f].state = "rejected" =>
              /\ futures[f].fired = 1
              /\ futures[f].event = futures[f].outcome
        /\ futures[f].state = "fulfilled" => futures[f].fired = 0

\* the part of C27 the code keeps: the event fires once, with the error the
\* caller receives, for an error response turned into a RequestHandlingError,
\* and for no other call
EventForRequestHandlingErrors ==
    \A f \in 1..Len(futures) :
        IF futures[f].outcome.k = "RequestHandlingError"
        THEN /\ futures[f].state = "rejected"
             /\ futures[f].fired = 1
             /\ futures[f].event = futures[f].outcome
        ELSE futures[f].fired = 0

----------------------------------------------------------------------------
(* The responses of a TypedChannel for every value and every serializer *)

\* the requests the other end sends
RespondMessages ==
    {RequestMsg(NumId(7), "calculate", "object"),
     RequestMsg(NumId(7), "calculate", "string"),
     RequestMsg(NumId(7), "progress", "object"),
     RequestMsg(NumId(7), "unknown", "object")}

\* what the request handler completes with: { ok } with any value, wrapped
\* errors with any error value, thrown values
RespondOutcomes ==
    {OkResult(v) : v \in JsonSamples}
       \cup {ErrorResult(v, SomeStr("m"), AbsentNum) : v \in JsonSamples}
       \cup {ErrorResult("object", AbsentStr, SomeNum(5)),
             ThrownRequestHandlingError("m", "object", 5), ThrownOther}

\* JSON.stringify(message), as the WebSocket and stream transports write a
\* message: a member whose value is undefined is left out
JsonStringify(message) ==
    IF message.kind = "response"
    THEN [message EXCEPT
            !.hasResult = message.hasResult /\ message.payload.result # "undefined"]
    ELSE message

\* a started channel whose request descriptor carries any of the serializers
\* for result and error
InitRespond ==
    /\ InitTransportListening
    /\ InitChannelIdle
    /\ TypedChannelStarted
    /\ requestHandler = TRUE
    /\ handlerTable \in {RegisteredTable(ser) : ser \in Serializers}
    /\ sendExceptionDetails = FALSE

\* a request of the other end arrives
RespondReceives ==
    /\ Len(inbound) < MaxInbound
    /\ \E message \in RespondMessages : ProcessMessage(message, Len(inbound) + 1, {})
    /\ UNCHANGED <<lastUsedRequestId, requestHandler, handlerTable, sendExceptionDetails>>
    /\ UNCHANGED <<transportVars, typedVars, otherVars>>

\* the promise of the request handler settles
RespondHandlerCompletes ==
    /\ \E n \in 1..Len(inbound), result \in RespondOutcomes :
          /\ inbound[n].phase = "handling"
          /\ CompleteRequest(n, result)
    /\ UNCHANGED <<outboundVars, requestHandler, handlerTable, sendExceptionDetails>>
    /\ UNCHANGED <<transportVars, typedVars, otherVars>>

NextRespond == RespondReceives \/ RespondHandlerCompletes \/ RefusalIsSent

SpecRespond == InitRespond /\ [][NextRespond]_vars

\* C28.  Every response message the channel emits carries exactly one of
\* result and error, whatever value the request handler returned and
\* whatever serializer the descriptor carries: a success response has a
\* result member and no error member, an error response an error member and
\* no result member.
C28_ExactlyOneOfResultAndError ==
    \A i \in 1..Len(sent) :
        sent[i].kind = "response" =>
            /\ JsonStringify(sent[i]).hasResult # JsonStringify(sent[i]).hasError
            /\ JsonStringify(sent[i]).hasResult = sent[i].payload.hasResult

\* what holds of the message object handed to the transport: it has the key
\* `result` or the key `error`, never both
ResponseObjectHasOneKey ==
    \A i \in 1..Len(sent) :
        sent[i].kind = "response" => sent[i].hasResult # sent[i].hasError

----------------------------------------------------------------------------
(* Serializers: round trips *)

\* the JSON values (undefined is none)
JsonValues == (JsonSamples \ {"undefined"}) \cup {ObjectWith("method", "calculate")}

\* the application values of a serializer's type: any value for sAny, {} for
\* sEmptyObject, undefined for sVoidFromNull, what the schema parses for zod
ApplicationValues(ser) ==
    CASE ser = "any" -> JsonSamples
      [] ser = "emptyObject" -> {"emptyObject"}
      [] ser = "voidFromNull" -> {"undefined"}
      [] ser = "zodString" -> {"string", "emptyString"}
      [] OTHER -> {"object", "emptyObject"}

\* deserializeFromJson(serializeToJson(v))
DeserializeSerialized(ser, v) == DeserializeFromJson(ser, SerializeToJson(ser, v))

\* serializeToJson(deserializeFromJson(j).value), for a j that is accepted
SerializeDeserialized(ser, j) == SerializeToJson(ser, DeserializeFromJson(ser, j).value)

\* an application value is serialized and the JSON deserialized again
SerializeThenDeserialize ==
    /\ Len(api) < MaxSends
    /\ \E ser \in Serializers :
          \E v \in ApplicationValues(ser) :
             LogCall("deserialize(serialize)", ser, DeserializeSerialized(ser, v), v)
    /\ UNCHANGED <<transportVars, outboundVars, sent, inboundVars>>
    /\ UNCHANGED <<wire, requestSender, constructed, listening, er, otherVars>>

\* a JSON value the serializer accepts is deserialized and the value
\* serialized again
DeserializeThenSerialize ==
    /\ Len(api) < MaxSends
    /\ \E ser \in Serializers, j \in JsonValues :
          /\ ~DeserializeFromJson(ser, j).hasErrors
          /\ LogCall("serialize(deserialize)", ser, SerializeDeserialized(ser, j), j)
    /\ UNCHANGED <<transportVars, outboundVars, sent, inboundVars>>
    /\ UNCHANGED <<wire, requestSender, constructed, listening, er, otherVars>>

NextSerializers == SerializeThenDeserialize \/ DeserializeThenSerialize

SpecSerializers == InitBaseMessageTransport /\ [][NextSerializers]_vars

\* C29.  For every serializer a descriptor can carry, the three built-in
\* helpers included: deserialize(serialize(v)) = v for every application
\* value v of the serializer's type, and serialize(deserialize(j)) = j for
\* every JSON value j the serializer accepts.
C29_SerializerRoundTrips ==
    \A i \in 1..Len(api) :
        IF api[i].op = "deserialize(serialize)"
        THEN /\ ~api[i].outcome.hasErrors
             /\ api[i].outcome.value = api[i].params
        ELSE api[i].outcome = api[i].params

\* the half of C29 the code keeps: deserialize(serialize(v)) = v
SerializedValuesComeBack ==
    \A i \in 1..Len(api) :
        api[i].op = "deserialize(serialize)" =>
            /\ ~api[i].outcome.hasErrors
            /\ api[i].outcome.value = api[i].params

\* sAny keeps both halves
AnyRoundTrips ==
    \A i \in 1..Len(api) :
        (api[i].op = "serialize(deserialize)" /\ api[i].method = "any") =>
            api[i].outcome = api[i].params


----------------------------------------------------------------------------
(* NodeJsMessageStream: newline-framed JSON over a byte stream *)

\* the longest string member of a message written to the stream
MaxChars == 2

\* the characters of a message's string member: "a" is one byte in UTF-8,
\* "E" stands for a character of two bytes (any character above U+007F)
PayloadChars == {"a", "E"}

\* the messages written: each is told from the others by its string member
NodePayloads == UNION {[1..n -> PayloadChars] : n \in 0..MaxChars}

\* JSON.stringify(message): the fixed syntax in front of the string member
\* is "{", the syntax behind it "}"; characters above U+007F are not escaped
JsonStringifyText(payload) == <<"{">> \o payload \o <<"}">>

\* the stream's encoding of the string written: UTF-8
RECURSIVE Utf8Encode(_)
Utf8Encode(chars) ==
    IF chars = <<>> THEN <<>>
    ELSE (IF Head(chars) = "E" THEN <<"E1", "E2">> ELSE <<Head(chars)>>)
         \o Utf8Encode(Tail(chars))

\* chunk.toString("utf8"): every chunk is decoded on its own; a first byte
\* whose second byte is not in the chunk, and a second byte without its
\* first, each become U+FFFD ("?")
RECURSIVE ChunkToString(_)
ChunkToString(bytes) ==
    IF bytes = <<>> THEN <<>>
    ELSE IF Head(bytes) = "E1"
         THEN IF Len(bytes) >= 2 /\ bytes[2] = "E2"
              THEN <<"E">> \o ChunkToString(SubSeq(bytes, 3, Len(bytes)))
              ELSE <<"?">> \o ChunkToString(Tail(bytes))
    ELSE IF Head(bytes) = "E2" THEN <<"?">> \o ChunkToString(Tail(bytes))
    ELSE <<Head(bytes)>> \o ChunkToString(Tail(bytes))

\* this.buffer.indexOf("\n"), counted from 1; 0 when there is none
IndexOfNewline(str) ==
    IF \E i \in 1..Len(str) : str[i] = "LF"
    THEN CHOOSE i \in 1..Len(str) :
            /\ str[i] = "LF"
            /\ \A j \in 1..(i - 1) : str[j] # "LF"
    ELSE 0

\* JSON.parse(messageStr): the text is a message when the fixed syntax
\* surrounds a string member; U+FFFD is a character a string may hold
JsonParseText(str) ==
    IF /\ Len(str) >= 2
       /\ str[1] = "{"
       /\ str[Len(str)] = "}"
       /\ \A i \in 2..(Len(str) - 1) : str[i] \in PayloadChars \cup {"?"}
    THEN [ok |-> TRUE, payload |-> SubSeq(str, 2, Len(str) - 1)]
    ELSE [ok |-> FALSE, payload |-> <<>>]

\* the body of the try block of the "data" handler for one line: JSON.parse
\* throws a SyntaxError for a text that is no message; for a message the
\* call this._onMessage(obj) follows, and BaseMessageStream has the members
\* onMessage, setReadCallback and onConnectionClosed and no _onMessage, so
\* the call of the undefined member throws a TypeError.  Either way the
\* catch block logs the line, and nothing is passed on.
TryParseAndSignal(messageStr) ==
    [line |-> messageStr,
     error |-> IF JsonParseText(messageStr).ok
               THEN "TypeError: this._onMessage is not a function"
               ELSE "SyntaxError"]

\* the while loop of the "data" handler: the complete lines of the buffer
\* are taken off it in order, each non-empty one goes through the try
\* block, and the incomplete last line stays in the buffer.
\* (trim() removes nothing: no text here starts or ends with white space.)
RECURSIVE ProcessCompleteMessages(_)
ProcessCompleteMessages(buffer) ==
    LET newlineIndex == IndexOfNewline(buffer)
        messageStr == SubSeq(buffer, 1, newlineIndex - 1)
        rest == ProcessCompleteMessages(SubSeq(buffer, newlineIndex + 1, Len(buffer)))
    IN  IF newlineIndex = 0
        THEN [errors |-> <<>>, buffer |-> buffer]
        ELSE [errors |-> (IF Len(messageStr) > 0
                          THEN <<TryParseAndSignal(messageStr)>> ELSE <<>>) \o rest.errors,
              buffer |-> rest.buffer]

\* write(message): JSON.stringify(message) + "\n" goes onto the write stream
NodeWrite ==
    /\ Len(sent) < MaxSends
    /\ \E payload \in NodePayloads :
          /\ sent' = Append(sent, payload)
          /\ nodeStream' =
                [nodeStream EXCEPT
                    !.pipe = @ \o Utf8Encode(JsonStringifyText(payload) \o <<"LF">>)]
    /\ UNCHANGED <<transportVars, outboundVars, inboundVars, typedVars>>
    /\ UNCHANGED <<unknownNotificationHandler, disposables, connectionState,
                   factories, futures, peer>>

\* the read stream emits "data" with the next bytes, as many as it likes:
\* the handler decodes the chunk, appends it to the buffer and puts every
\* complete line through the try block, whose catch logs the line; neither
\* the listener nor the queue of unread messages gets anything
NodeData ==
    /\ nodeStream.pipe # <<>>
    /\ \E n \in 1..Len(nodeStream.pipe) :
          LET chunk == SubSeq(nodeStream.pipe, 1, n)
              str == ChunkToString(chunk)
              done == ProcessCompleteMessages(nodeStream.buffer \o str)
          IN  nodeStream' =
                    [pipe |-> SubSeq(nodeStream.pipe, n + 1, Len(nodeStream.pipe)),
                     buffer |-> done.buffer,
                     errors |-> nodeStream.errors \o done.errors]
    /\ UNCHANGED <<transportVars, outboundVars, sent, inboundVars, typedVars>>
    /\ UNCHANGED <<unknownNotificationHandler, disposables, connectionState,
                   factories, futures, peer>>

\* setReadCallback(callback) with a callback that returns at once (it stores
\* the message): the callback is installed and handed everything queued
NodeSetListener ==
    /\ setCalls < MaxSets
    /\ \E l \in Listeners :
          /\ messageListener' = l
          /\ delivered' = delivered \o
                [i \in 1..Len(unprocessed) |->
                    [m |-> unprocessed[i], to |-> l, installed |-> l, depth |-> 1]]
    /\ unprocessed' = <<>>
    /\ setCalls' = setCalls + 1
    /\ UNCHANGED <<impl, stack, arrived>>
    /\ UNCHANGED <<outboundVars, sent, inboundVars, typedVars, otherVars>>

NextNodeStream == NodeWrite \/ NodeData \/ NodeSetListener

SpecNodeStream == InitBaseMessageStream /\ [][NextNodeStream]_vars

\* the messages the stream has passed on, in order: those handed to a
\* listener followed by those still queued for one
NodeReceived == [i \in 1..Len(delivered) |-> delivered[i].m] \o unprocessed

\* the texts a string can arrive as: each two-byte character either
\* unchanged or as U+FFFD twice
RECURSIVE Replaced(_)
Replaced(chars) ==
    IF chars = <<>> THEN {<<>>}
    ELSE {first \o rest :
            first \in (IF Head(chars) = "E" THEN {<<"E">>, <<"?", "?">>}
                                            ELSE {<<Head(chars)>>}),
            rest \in Replaced(Tail(chars))}

\* C30.  Over the newline-framed Node.js stream every message written is
\* passed on to the reading end exactly once, in write order and equal to
\* the message written, however the byte stream is split into chunks: what
\* was passed on is always the first messages written, unchanged, and once
\* all bytes were read it is all of them.
C30_FramedMessagesArriveUnchanged ==
    /\ Len(NodeReceived) <= Len(sent)
    /\ \A i \in 1..Len(NodeReceived) : NodeReceived[i] = sent[i]
    /\ nodeStream.pipe = <<>> => Len(NodeReceived) = Len(sent)

\* what the code does instead: no message is passed on, neither to a
\* listener nor to the queue, and every line read is logged as an error, in
\* write order, with the TypeError of the call of _onMessage
NothingIsPassedOn ==
    /\ NodeReceived = <<>>
    /\ Len(nodeStream.errors) <= Len(sent)
    /\ \A i \in 1..Len(nodeStream.errors) :
          /\ nodeStream.errors[i].line \in Replaced(JsonStringifyText(sent[i]))
          /\ nodeStream.errors[i].error = "TypeError: this._onMessage is not a function"
    /\ nodeStream.pipe = <<>> => Len(nodeStream.errors) = Len(sent)

\* a line of one-byte characters is logged as it was written
OneByteLinesLoggedUnchanged ==
    \A i \in 1..Len(nodeStream.errors) :
        (\A k \in 1..Len(sent[i]) : sent[i][k] = "a") =>
            nodeStream.errors[i].line = JsonStringifyText(sent[i])

\* all bytes of the messages written were read, a listener is installed and
\* has received nothing
WrittenAndReadNothingArrived ==
    /\ Len(sent) >= 1
    /\ nodeStream.pipe = <<>>
    /\ messageListener # None
    /\ Len(nodeStream.errors) = Len(sent)
    /\ delivered = <<>>

\* a two-byte character whose bytes came in two chunks was decoded to two
\* U+FFFD in the line taken off the buffer
SplitCharacterReplaced ==
    \E i \in 1..Len(nodeStream.errors) :
        sent[i] = <<"E">> /\ nodeStream.errors[i].line = <<"{", "?", "?", "}">>


----------------------------------------------------------------------------
(* Request handlers that have not completed while further messages arrive *)

\* what the other end sends: requests with different ids for the method
\* with a handler, a request for a method without one, a notification, and
\* for each request of the program a result
ConcurrentMessages ==
    {RequestMsg(id, "calculate", "object") : id \in {NumId(7), StrId("8")}}
    \cup {RequestMsg(StrId("8"), "unknown", "object"),
          RequestMsg(NoId, "progress", "object")}
    \cup {ResponseMessageFor(NumId(n), OkResponse("object")) :
            n \in 0..(MaxRequests - 1)}

\* the transport signals a message of the other end, whatever the request
\* handlers called before are doing; the channel's listener processes it
ConcurrentReceives ==
    /\ arrived < MaxInbound + 1
    /\ \E message \in ConcurrentMessages :
          /\ IF IsRequestOrNotification(message)
             THEN Len(inbound) < MaxInbound
             ELSE rxCount < MaxResponses
          /\ ProcessMessage(message, arrived + 1, {})
          /\ wire' = Append(wire, message)
          /\ arrived' = arrived + 1
    /\ UNCHANGED <<impl, unprocessed, messageListener, stack, delivered, setCalls>>
    /\ UNCHANGED <<lastUsedRequestId, requestHandler, handlerTable, sendExceptionDetails>>
    /\ UNCHANGED <<requestSender, constructed, listening, api, er, otherVars>>

NextConcurrent ==
    \/ ServiceCall
    \/ ConcurrentReceives
    \/ ServiceHandlerCompletes
    \/ RequestContinues
    \/ RefusalIsSent

SpecConcurrent == InitCall /\ [][NextConcurrent]_vars

\* a request handler that was called has not completed
HandlerSuspended == \E n \in 1..Len(inbound) : inbound[n].phase = "handling"

\* the message that arrives in this step is dispatched in this step: a
\* request or notification gets its entry with its arrival number, the
\* handlers registered for it are called and a request without handler is
\* refused (handleRequest has returned its error object); a response settles the call that is pending under its id
DispatchedOnArrival ==
    arrived' = arrived + 1 =>
        LET message == wire'[arrived']
            n == Len(inbound) + 1
        IN  IF IsRequestOrNotification(message)
            THEN /\ Len(inbound') = n
                 /\ inbound'[n].msg = message
                 /\ inbound'[n].seq = arrived'
                 /\ IF IsNotification(message)
                    THEN inbound'[n].invoked =
                            NotificationHandlers(handlerTable, RequestObjectOf(message))
                    ELSE IF handlerTable[message.method].kind = "request"
                    THEN /\ inbound'[n].phase = "handling"
                         /\ inbound'[n].invoked = handlerTable[message.method].handlers
                    ELSE /\ inbound'[n].phase = "refusing"
                         /\ inbound'[n].invoked = {}
                         /\ inbound'[n].result =
                               Refused(RequestLookup(handlerTable,
                                                     RequestObjectOf(message)).response)
            ELSE /\ rxCount' = rxCount + 1
                 /\ lastRx' = message
                 /\ \A c \in 1..Len(calls) :
                       (calls[c].state = "pending" /\ ToStr(calls[c].id) = ToStr(message.id))
                          => calls'[c].state = "resolved"

\* every response emitted carries the id of the request it answers
ResponsesCarryRequestId ==
    \A i \in 1..Len(sent) :
        sent[i].kind = "response" =>
            /\ sent[i].re \in 1..Len(inbound)
            /\ sent[i].id = inbound[sent[i].re].msg.id

\* C31.  A request handler that has not completed does not delay later
\* inbound messages: every request, notification and response is dispatched
\* in the step in which it arrives, in arrival order, also while handlers
\* are suspended, and every response emitted - in whatever order the
\* handlers complete - carries the id of the request it answers.
C31_SuspendedHandlerDelaysNothing ==
    /\ [][DispatchedOnArrival]_vars
    /\ [](ResponsesCarryRequestId
          /\ \A n, m \in 1..Len(inbound) : n < m => inbound[n].seq < inbound[m].seq)

\* C31 witness: the handler called for the first request is still
\* suspended; after it a second request with another id arrived and was
\* answered, and a response arrived and settled the program's own request.
C31_Witness ==
    /\ Len(inbound) = 2
    /\ inbound[1].phase = "handling"
    /\ inbound[1].msg.id = NumId(7)
    /\ inbound[2].phase = "responded"
    /\ inbound[2].msg.id = StrId("8")
    /\ inbound[2].invoked # {}
    /\ \E i \in 1..Len(sent) : sent[i].kind = "response" /\ sent[i].id = StrId("8")
    /\ arrived = 3
    /\ wire[3].kind = "response"
    /\ Len(calls) = 1
    /\ calls[1].state = "resolved"


----------------------------------------------------------------------------
(* Notification handlers that throw: functions registered on the
   TypedChannel and functions registered through a contextualized channel *)

\* the messages of the other end: notifications for the registered method
\* with valid and invalid params, and a request for a method without entry
NotifyingMessages ==
    {RequestMsg(NoId, "progress", params) : params \in {"object", "string"}}
    \cup {RequestMsg(NoId, "unknown", "object"), RequestMsg(StrId("7"), "unknown", "object")}

InitNotified ==
    /\ InitTransportListening
    /\ InitChannelIdle
    /\ TypedChannelStarted
    /\ requestHandler = TRUE
    /\ handlerTable \in {RegisteredTable("any"), ContextualizedTable}
    /\ sendExceptionDetails = FALSE

\* a message of the other end arrives in a process that is still running,
\* be it while a rejected promise waits for the runtime's reaction; the
\* functions in `threw` throw when they are called
NotifiedReceives ==
    /\ ~Terminated
    /\ Len(inbound) < MaxInbound + 1
    /\ \E message \in NotifyingMessages, threw \in SUBSET {"n1", "n2"} :
          /\ threw \subseteq NotificationHandlers(handlerTable, RequestObjectOf(message))
          /\ IF IsNotification(message)
             THEN ProcessNotification(message, Len(inbound) + 1, threw)
             ELSE ProcessRequest(message, Len(inbound) + 1)
    /\ UNCHANGED <<outboundVars, requestHandler, handlerTable, sendExceptionDetails>>
    /\ UNCHANGED <<transportVars, typedVars, otherVars>>

NextNotified ==
    \/ NotifiedReceives
    \/ RefusalIsSent
    \/ ContextualizedHandlerContinues
    \/ UnhandledRejection

SpecNotified == InitNotified /\ [][NextNotified]_vars

\* the notifications received whose method is registered and whose params
\* deserialize
HandledNotifications ==
    {n \in 1..Len(inbound) :
        /\ ~IsInboundRequest(n)
        /\ NotificationInvokes(handlerTable, RequestObjectOf(inbound[n].msg))}

\* C32.  For an inbound notification whose method is registered and whose
\* params deserialize, every handler registered for the method is invoked;
\* a handler that throws does not keep later messages from being processed
\* (the process that holds the channel goes on), and nothing is sent to the
\* other end for it.
C32_ThrowingNotificationHandler ==
    \A n \in HandledNotifications :
        /\ inbound[n].invoked = handlerTable[inbound[n].msg.method].handlers
        /\ inbound[n].phase # "terminated"
        /\ EmittedFor(n) = {}

\* the part of C32 the code keeps: every handler is invoked and nothing is
\* sent, and what a function registered on the TypedChannel throws is caught
ThrowingFunctionIsCaught ==
    \A n \in HandledNotifications :
        /\ inbound[n].invoked = handlerTable[inbound[n].msg.method].handlers
        /\ EmittedFor(n) = {}
        /\ (ContextualizedHandler \notin inbound[n].threw)
              => inbound[n].phase \in {"dropped", "pending"}

\* both functions registered on the TypedChannel threw for one notification
\* and the request that arrived after it was answered
LaterMessageProcessed ==
    /\ Len(inbound) = 2
    /\ inbound[1].threw = {"n1", "n2"}
    /\ inbound[1].invoked = {"n1", "n2"}
    /\ IsInboundRequest(2)
    /\ EmittedFor(2) # {}


----------------------------------------------------------------------------
(* Responses whose id is not in the pending table *)

\* the step hands a response to _processResponse whose id has no entry
UnexpectedResponse ==
    /\ rxCount' = rxCount + 1
    /\ ~MapHas(unprocessedResponses, ToStr(lastRx'.id))

\* the promise of sendRequest call c and what it was settled with
FutureOf(call) == <<call.state, call.outcome, call.from, call.fromId>>

\* C33.  A response whose id has no entry in the pending table - no request
\* with that id was sent, or it was answered already, or its send failed -
\* changes nothing: the table, every request's future and the id counter
\* stay as they are and nothing is sent; a request that was answered or
\* whose send failed has no entry; and a future that is completed is never
\* completed again.
C33_UnexpectedResponseDropped ==
    /\ [][/\ UnexpectedResponse =>
                UNCHANGED <<unprocessedResponses, calls, lastUsedRequestId, sent,
                            inbound, transportVars>>
          /\ \A c \in 1..Len(calls) :
                calls[c].state # "pending" => FutureOf(calls'[c]) = FutureOf(calls[c])]_vars
    /\ [](\A c \in 1..Len(calls) :
             (CompletedByResponse(c) \/ calls[c].send = "failed")
                => ~MapHas(unprocessedResponses, ToStr(calls[c].id)))

\* C33 witness: the first request was answered by the first response; a
\* second response with the same id arrived and the future kept the outcome
\* of the first, while the second request is still pending.
C33_Witness ==
    /\ Len(calls) = 2
    /\ rxCount = 2
    /\ ToStr(lastRx.id) = ToStr(calls[1].id)
    /\ lastRx.payload = 2
    /\ calls[1].state = "resolved"
    /\ calls[1].from = 1
    /\ calls[2].state = "pending"
    /\ MapHas(unprocessedResponses, ToStr(calls[2].id))

\* a response arrived for a request whose send had failed, and was dropped
ResponseAfterSendFailure ==
    /\ Len(calls) = 1
    /\ calls[1].outcome = "sendFailed"
    /\ rxCount = 1
    /\ ToStr(lastRx.id) = ToStr(calls[1].id)


----------------------------------------------------------------------------
(* request and notify from inside a user handler *)

\* C34.  A request or notify call made while a user handler is running -
\* also a handler called for a message that was queued at the transport and
\* is handed over while startListen drains the queue - is never refused with
\* the 'startListen must be called' error.
C34_HandlerMaySend ==
    [][(IsCall({"request", "notify"}) /\ UserHandlerRunning)
          => CallOutcome # "notStarted"]_vars

\* the part of C34 the code keeps: once startListen has returned, a call
\* made from a handler is not refused for that reason
HandlerMaySendOnceListening ==
    [][(IsCall({"request", "notify"}) /\ UserHandlerRunning /\ listening)
          => CallOutcome # "notStarted"]_vars

\* a handler called once startListen had returned made a call that was sent
HandlerSentWhileListening ==
    /\ listening
    /\ UserHandlerRunning
    /\ api # <<>>
    /\ api[Len(api)].op \in {"request", "notify"}
    /\ api[Len(api)].outcome = "sent"


----------------------------------------------------------------------------
(* methodNotFound at the caller *)

\* the caller's request ended with code methodNotFound or with the
\* OptionalMethodNotFound sentinel
EndedWithMethodNotFound ==
    /\ er.stage = "done"
    /\ \/ er.outcome = SentinelOutcome
       \/ er.outcome.k = "RequestHandlingError" /\ er.outcome.code = MethodNotFound

\* C35.  A caller's request ends with error code methodNotFound, or with the
\* OptionalMethodNotFound sentinel, only if the callee had no dispatch-table
\* entry for the method when it processed the request, never when the
\* method's handler was invoked.
C35_MethodNotFoundMeansNoEntry ==
    EndedWithMethodNotFound =>
        /\ handlerTable["calculate"].kind = "none"
        /\ inbound[1].invoked = {}

\* the part of C35 the code keeps: the channel itself answers with
\* methodNotFound only for a method without entry; with an entry the code
\* reaches the caller only when the handler chose it for its error
MethodNotFoundFromChannelOrHandler ==
    EndedWithMethodNotFound =>
        \/ handlerTable["calculate"].kind = "none" /\ inbound[1].invoked = {}
        \/ inbound[1].result.errorCode = SomeNum(MethodNotFound)

\* the handler was invoked and returned an error with the code
\* methodNotFound; the caller, using an optional descriptor, got the sentinel
SentinelAfterHandlerRan ==
    /\ er.stage = "done"
    /\ er.outcome = SentinelOutcome
    /\ inbound[1].invoked # {}


----------------------------------------------------------------------------
(* A contract composition that throws *)

\* C36.  When registerServer / getServer throws while registering handlers,
\* the dispatch table is left exactly as it was before the call.
C36_FailedCompositionRegistersNothing ==
    [][(IsCall({"registerServer"}) /\ CallOutcome # "ok")
          => handlerTable' = handlerTable]_vars

\* the part of C36 the code keeps: the registration that throws changes
\* nothing itself, so a failed composition only leaves entries for methods
\* that had none, with the composition's own handler, and touches no entry
\* that existed; the program gets no disposable for what is left
FailedCompositionKeepsEarlierOnes ==
    [][(IsCall({"registerServer"}) /\ CallOutcome # "ok")
          => /\ \A m \in Methods :
                   handlerTable'[m] # handlerTable[m]
                      => /\ handlerTable[m].kind = "none"
                         /\ handlerTable'[m].handlers = {ContractHandler(Len(api'))}
             /\ disposables' = disposables]_vars

\* a composition failed at its second descriptor and the handler it had
\* registered for the first is still installed
HandlerLeftByFailedComposition ==
    /\ api # <<>>
    /\ api[Len(api)].op = "registerServer"
    /\ api[Len(api)].outcome # "ok"
    /\ handlerTable["calculate"].kind = "request"
    /\ handlerTable["calculate"].handlers = {ContractHandler(Len(api))}


----------------------------------------------------------------------------
(* Two started peers over a lossless, order-preserving transport: the
   program calls request; the request handlers of the other end call back
   into the program (requests of their own, which the program's handlers
   answer) and return once their back-calls have completed *)

\* the StreamBasedChannel of the other end right after startListen: its id
\* counter, its pending table (keys) and, as history, its sendRequest calls
PeerStarted ==
    [taken |-> 0, handling |-> {}, refusing |-> {}, out |-> <<>>,
     lastUsedRequestId |-> 0, unprocessedResponses |-> {}, calls |-> <<>>]

\* a request handler of the other end that is running: the id of the request
\* it handles, the back-calls it has made, the key of the back-call it awaits
PeerHandler(id, made, awaiting) == [id |-> id, made |-> made, awaiting |-> awaiting]

\* (variant: the listener awaits the handler of a request before it takes
\* the next message)
PeerListenerReady_AwaitsHandler == peer.handling = {}
\* the listener of the other end's channel, lines 38-48: _processRequest is
\* called without await, so the listener has returned whatever the handlers do
PeerListenerReady == TRUE

\* the other end's _processResponse: the entry of the response's id is
\* removed and the handler awaiting that back-call goes on
PeerProcessResponse(message) ==
    LET strId == ToStr(message.id) IN
    IF strId \notin peer.unprocessedResponses
    THEN [peer EXCEPT !.taken = @ + 1]
    ELSE [peer EXCEPT
            !.taken = @ + 1,
            !.unprocessedResponses = @ \ {strId},
            !.calls = [c \in DOMAIN @ |->
                          IF ToStr(@[c].id) = strId /\ @[c].state = "pending"
                          THEN [@[c] EXCEPT !.state = "resolved"] ELSE @[c]],
            !.handling = {IF h.awaiting = strId THEN PeerHandler(h.id, h.made, "") ELSE h :
                             h \in @}]

\* the other end's _processRequest up to the await of handleRequest, which
\* has started the handler or returned an error object
PeerProcessRequest(message) ==
    LET lookup == RequestLookup(PeerTable, RequestObjectOf(message)) IN
    [peer EXCEPT
        !.taken = @ + 1,
        !.handling = IF lookup.invoke THEN @ \cup {PeerHandler(message.id, 0, "")} ELSE @,
        !.refusing = IF lookup.invoke THEN @
                     ELSE @ \cup {PeerRefusal(message.id, lookup.response)}]

\* the other end's _processNotification: the notification handlers of the
\* method are called (they send nothing) and no response is sent
PeerProcessNotification(message) == [peer EXCEPT !.taken = @ + 1]

\* the descriptors the program calls request with: server.calculate, and a
\* method the other end has no handler for
PeersCallTypes == {ServiceType, RequestType("unknown", "any", "any", "any", FALSE)}

\* the program calls request, every time with the same descriptor
ProgramRequests ==
    /\ Len(futures) < MaxRequests
    /\ \E type \in PeersCallTypes :
          /\ IF futures = <<>> THEN TRUE ELSE type = futures[1].type
          /\ RequestCall(type, "object")
          /\ futures' = Append(futures, Future(type, Len(calls) + 1, "awaiting", NoOutcome))
    /\ UNCHANGED <<rxCount, lastRx>>
    /\ UNCHANGED <<transportVars, inboundVars>>
    /\ UNCHANGED <<wire, requestSender, constructed, listening, er>>
    /\ UNCHANGED <<unknownNotificationHandler, disposables, connectionState, factories, peer, nodeStream>>

\* the program calls notify, as its first call
ProgramNotifies ==
    /\ api = <<>>
    /\ NotifyCall(ProgressType, "object")
    /\ UNCHANGED <<transportVars, outboundVars, inboundVars>>
    /\ UNCHANGED <<wire, requestSender, constructed, listening, er, otherVars>>

InitPeers ==
    /\ InitTransportListening
    /\ InitChannelIdle
    /\ wire = <<>>
    /\ requestSender = TRUE
    /\ constructed = TRUE
    /\ listening = TRUE
    /\ api = <<>>
    /\ er = NoEr
    /\ unknownNotificationHandler = {}
    /\ disposables = <<>>
    /\ connectionState = "open"
    /\ factories = <<>>
    /\ futures = <<>>
    /\ nodeStream = [pipe |-> <<>>, buffer |-> <<>>, errors |-> <<>>]
    /\ peer = PeerStarted
    /\ requestHandler = TRUE
    /\ handlerTable = RegisteredTable("any")
    /\ sendExceptionDetails = FALSE

\* the transport hands the other end the next message the program's channel
\* sent: a notification, a request or a response to one of its back-calls
PeerTakes ==
    /\ PeerListenerReady
    /\ peer.taken < Len(sent)
    /\ LET message == sent[peer.taken + 1] IN
       peer' = IF IsRequestOrNotification(message)
               THEN IF IsNotification(message)
                    THEN PeerProcessNotification(message)
                    ELSE PeerProcessRequest(message)
               ELSE PeerProcessResponse(message)
    /\ UNCHANGED <<transportVars, outboundVars, sent, inboundVars, typedVars>>
    /\ UNCHANGED <<unknownNotificationHandler, disposables, connectionState, factories, futures, nodeStream>>

\* a running handler of the other end that awaits nothing calls back:
\* sendRequest of the other end's channel
PeerHandlerCallsBack ==
    /\ \E h \in peer.handling :
          /\ h.awaiting = ""
          /\ Len(peer.calls) < MaxNotes
          /\ LET id == NumId(peer.lastUsedRequestId) IN
             peer' = [peer EXCEPT
                        !.lastUsedRequestId = NewRequestIdCounter(@),
                        !.unprocessedResponses = @ \cup {ToStr(id)},
                        !.calls = Append(@, [id |-> id, state |-> "pending"]),
                        !.out = Append(@, RequestMsg(id, "calculate", "object")),
                        !.handling = (@ \ {h}) \cup {PeerHandler(h.id, h.made + 1, ToStr(id))}]
    /\ UNCHANGED <<transportVars, outboundVars, sent, inboundVars, typedVars>>
    /\ UNCHANGED <<unknownNotificationHandler, disposables, connectionState, factories, futures, nodeStream>>

\* a running handler of the other end that awaits nothing returns; the
\* response is sent
PeerHandlerReturns ==
    /\ \E h \in peer.handling :
          /\ h.awaiting = ""
          /\ peer' = [peer EXCEPT
                        !.handling = @ \ {h},
                        !.out = Append(@, ResponseMessageFor(h.id,
                                   HandlerResponse(PeerTable["calculate"].type,
                                                   OkResult("object"), FALSE)))]
    /\ UNCHANGED <<transportVars, outboundVars, sent, inboundVars, typedVars>>
    /\ UNCHANGED <<unknownNotificationHandler, disposables, connectionState, factories, futures, nodeStream>>

NextPeers ==
    \/ ProgramRequests
    \/ ProgramNotifies
    \/ PeerTakes
    \/ PeerRefuses
    \/ PeerHandlerCallsBack
    \/ PeerHandlerReturns
    \/ Deliver
    \/ HandlerReturnsValue
    \/ RequestContinues

SpecPeers == InitPeers /\ [][NextPeers]_vars

\* the transport delivers what was sent, handlers that await nothing return,
\* and the continuations of settled promises run
LiveSpecPeers ==
    /\ SpecPeers
    /\ WF_vars(PeerTakes)
    /\ WF_vars(PeerRefuses)
    /\ WF_vars(Deliver)
    /\ WF_vars(PeerHandlerReturns)
    /\ WF_vars(HandlerReturnsValue)
    /\ WF_vars(RequestContinues)

\* the keys the other end's back-calls can have
BackCallKeys == {ToStr(NumId(n)) : n \in 0..(MaxNotes - 1)}

\* the program's f-th request call has completed
RequestCompleted(f) ==
    IF f <= Len(futures) THEN futures[f].state # "awaiting" ELSE FALSE

\* every request made so far has completed, on both ends
AllRequestsCompleted ==
    /\ \A f \in 1..Len(futures) : futures[f].state # "awaiting"
    /\ \A c \in 1..Len(calls) : calls[c].state # "pending"
    /\ \A c \in 1..Len(peer.calls) : peer.calls[c].state # "pending"

\* C37.  Between two started peers over a lossless, order-preserving
\* transport that stays open, with handlers that return once their own
\* back-calls have completed, every request eventually completes - the
\* program's requests and the back-calls the other end's handlers make while
\* they handle them - and once all requests have completed the pending
\* tables of both ends are empty.
C37_RequestsComplete ==
    /\ \A f \in 1..MaxRequests :
          (Len(futures) >= f) ~> RequestCompleted(f)
    /\ \A k \in BackCallKeys :
          (k \in peer.unprocessedResponses) ~> (k \notin peer.unprocessedResponses)
    /\ [](AllRequestsCompleted =>
             unprocessedResponses = {} /\ peer.unprocessedResponses = {})

\* C37 witness: the program's request was handled by a handler of the other
\* end that made two back-calls, each answered by the program's handler;
\* everything has completed and both pending tables are empty.
C37_Witness ==
    /\ Len(futures) = 1
    /\ futures[1].state = "fulfilled"
    /\ Len(peer.calls) = 2
    /\ AllRequestsCompleted
    /\ Len(inbound) = 2
    /\ unprocessedResponses = {}
    /\ peer.unprocessedResponses = {}


----------------------------------------------------------------------------
(* Registrations of the same handler function *)

\* the registration that returned disposable d is active: dispose() was not
\* called on it
ActiveRegistration(d) == d.kind \in {"set", "unknown"} /\ d.calls = 0

\* the handler of registration d is installed: in the handlers Set of its
\* notification entry, or among the unknown-notification handlers
HandlerInstalled(d) ==
    IF d.kind = "unknown" THEN d.handler \in unknownNotificationHandler
    ELSE /\ handlerTable[d.method].kind = "notification"
         /\ d.handler \in handlerTable[d.method].handlers

\* disposable e deletes what registration d added: it belongs to a
\* registration of the same function in the same Set, or it deletes the
\* entry of d's method from the dispatch table
DeletesWhatWasAdded(e, d) ==
    \/ /\ e.kind = d.kind
       /\ e.method = d.method
       /\ e.id = d.id
       /\ e.handler = d.handler
    \/ e.kind = "map" /\ d.kind = "set" /\ e.method = d.method

\* a disposable that deletes what registration d added was disposed
SameFunctionDisposed(d) ==
    \E j \in 1..Len(disposables) :
        /\ disposables[j].calls > 0
        /\ \/ DeletesWhatWasAdded(disposables[j], d)
           \/ \E k \in 1..Len(disposables[j].parts) :
                 DeletesWhatWasAdded(disposables[j].parts[k], d)

\* C38.  Every call of registerNotificationHandler and of
\* registerUnknownNotificationHandler creates a registration of its own: as
\* long as a registration has not been disposed its handler is installed,
\* whatever other registrations were disposed.
C38_IndependentRegistrations ==
    \A i \in 1..Len(disposables) :
        ActiveRegistration(disposables[i]) => HandlerInstalled(disposables[i])

\* the part of C38 the code keeps: the handler of an active registration is
\* installed unless a registration of the same function, or a request
\* registration of the same method, was disposed
RegistrationsOfOtherFunctionsKept ==
    \A i \in 1..Len(disposables) :
        (ActiveRegistration(disposables[i]) /\ ~SameFunctionDisposed(disposables[i]))
            => HandlerInstalled(disposables[i])

\* two functions were registered for client.progress, one was disposed and
\* the other is still installed
OtherFunctionStillInstalled ==
    /\ Len(disposables) = 2
    /\ disposables[1].kind = "set" /\ disposables[2].kind = "set"
    /\ disposables[1].handler = "n1" /\ disposables[2].handler = "n2"
    /\ disposables[1].calls = 1 /\ disposables[2].calls = 0
    /\ handlerTable["progress"].handlers = {"n2"}


----------------------------------------------------------------------------
(* TypedChannel.notify and the outcome of the transport's send *)

\* the promise notify returns, lines 935-949: notify is an async function
\* that calls sendNotification without awaiting or returning its promise, so
\* it is rejected when checkChannel, the serializer or the assertion throws,
\* and fulfilled otherwise as soon as the message was handed over
NotifyFuture(type, args) ==
    LET params == SerializeToJson(type.paramsSerializer, args) IN
    IF CheckChannelThrows \/ params = "throws" \/ AssertObjectArrayOrNullThrows(params)
    THEN Future(type, 0, "rejected", ErrorOutcome)
    ELSE Future(type, Len(sent) + 1, "fulfilled", ValueOutcome("undefined"))

\* the messages for which the transport's send has settled, and those for
\* which it failed
SendSettled == {api[i].params : i \in {j \in 1..Len(api) : api[j].op = "stream.send"}}
SendRejected ==
    {api[i].params : i \in {j \in 1..Len(api) :
                               api[j].op = "stream.send" /\ api[j].outcome = "failed"}}

\* the program calls notify
NotifyReturnsFuture ==
    /\ Len(futures) < MaxSends
    /\ \E type \in {ProgressType, NotificationType("progress", "any")},
          args \in {"object", "string", "undefined"} :
          /\ NotifyCall(type, args)
          /\ futures' = Append(futures, NotifyFuture(type, args))
    /\ UNCHANGED <<transportVars, outboundVars, inboundVars>>
    /\ UNCHANGED <<wire, requestSender, constructed, listening, er>>
    /\ UNCHANGED <<unknownNotificationHandler, disposables, connectionState, factories, peer, nodeStream>>

\* the transport settles the promise of a send: the message was sent, or
\* the send failed; nobody waits for the promise of sendNotification
NotificationSendSettles ==
    /\ \E i \in (1..Len(sent)) \ SendSettled, outcome \in {"ok", "failed"} :
          LogCall("stream.send", sent[i].method, outcome, i)
    /\ UNCHANGED <<transportVars, outboundVars, sent, inboundVars>>
    /\ UNCHANGED <<wire, requestSender, constructed, listening, er, otherVars>>

NextNotifySend == NotifyReturnsFuture \/ NotificationSendSettles

SpecNotifySend == InitSend /\ [][NextNotifySend]_vars

\* C39.  If the transport's send fails for a notification sent with notify,
\* the future notify returned fails; it is never fulfilled for a
\* notification whose send failed.
C39_NotifyFailsWithSend ==
    \A f \in 1..Len(futures) :
        futures[f].call \in SendRejected => futures[f].state = "rejected"

\* the part of C39 the code keeps: notify's future fails when nothing was
\* handed to the transport, and is fulfilled when the notification was
\* handed over
NotifyFulfilledWhenHandedOver ==
    \A f \in 1..Len(futures) :
        IF futures[f].call = 0
        THEN futures[f].state = "rejected"
        ELSE /\ futures[f].state = "fulfilled"
             /\ futures[f].call \in 1..Len(sent)
             /\ sent[futures[f].call].method = futures[f].type.method

\* the send of a notification failed after notify's future was fulfilled
FulfilledThoughSendFailed ==
    /\ Len(futures) = 1
    /\ futures[1].state = "fulfilled"
    /\ futures[1].call \in SendRejected


----------------------------------------------------------------------------
(* LoopbackChannel beside a pair of StreamBasedChannels: the program sends
   each request on both; both hold the same request handler *)

\* no ResponseObject
NoResponseObject ==
    [hasResult |-> FALSE, result |-> "undefined", code |-> 0, message |-> "",
     data |-> "undefined"]

\* the request handler both channels hold, as a function of the request and
\* the request id: it returns the params as result, returns the request id,
\* returns an error object carrying the params, or raises
HandleRequestOf(request, requestId) ==
    CASE request.method = "echo" ->
            [raised |-> FALSE, response |-> OkResponse(request.params), exception |-> ""]
      [] request.method = "id" ->
            [raised |-> FALSE, response |-> OkResponse(ToStr(requestId)), exception |-> ""]
      [] request.method = "fail" ->
            [raised |-> FALSE, response |-> ErrorResponse(5, "m", request.params),
             exception |-> ""]
      [] OTHER ->
            [raised |-> TRUE, response |-> NoResponseObject, exception |-> "Error: secret"]

\* what the caller of sendRequest observes: the promise is resolved with a
\* ResponseObject or rejected with a failure
Observed(state, response, exception) ==
    [state |-> state, response |-> response, exception |-> exception]

\* LoopbackChannel.sendRequest: `return this.requestHandler.handleRequest(
\* request, curId, context)`, the promise of the handler itself
LoopbackSendRequest(request, curId) ==
    LET handled == HandleRequestOf(request, NumId(curId)) IN
    IF handled.raised
    THEN Observed("rejected", NoResponseObject, handled.exception)
    ELSE Observed("resolved", handled.response, "")

\* _processRequest of the StreamBasedChannel holding the handler: the
\* response message it sends for a request message
ProcessRequestOfHandler(message) ==
    LET handled == HandleRequestOf(RequestObjectOf(message), message.id)
        result == IF handled.raised THEN ListenerThrewResponse(handled.exception)
                  ELSE handled.response
    IN  ResponseMessageFor(message.id, result)

\* the other end of the pair has taken nothing; the LoopbackChannel has
\* `id = 0` and was not used
LoopbackStarted ==
    [taken |-> 0, handling |-> {}, out |-> <<>>, id |-> 0, requests |-> <<>>,
     answers |-> <<>>]

InitLoopback ==
    /\ InitTransportListening
    /\ InitChannelIdle
    /\ requestHandler = TRUE
    /\ handlerTable = <<>>
    /\ sendExceptionDetails = FALSE
    /\ wire = <<>>
    /\ requestSender = FALSE
    /\ constructed = TRUE
    /\ listening = FALSE
    /\ api = <<>>
    /\ er = NoEr
    /\ unknownNotificationHandler = {}
    /\ disposables = <<>>
    /\ connectionState = "open"
    /\ factories = <<>>
    /\ futures = <<>>
    /\ nodeStream = [pipe |-> <<>>, buffer |-> <<>>, errors |-> <<>>]
    /\ peer = LoopbackStarted

LoopbackMethods == {"echo", "id", "fail", "raise"}
\* params of every sort: the values RequestObject admits (object, array,
\* null) and, as JavaScript callers can pass them, undefined and a truthy and
\* a falsy scalar
LoopbackParams == {"object", "null", "undefined", "string", "emptyString"}

\* the program sends one request on the LoopbackChannel and on the
\* StreamBasedChannel
SendRequestOnBoth ==
    /\ Len(calls) < MaxRequests
    /\ \E method \in LoopbackMethods, params \in LoopbackParams :
          LET request == [method |-> method, params |-> params] IN
          /\ SendRequestCall(method, params)
          /\ peer' = [peer EXCEPT !.id = @ + 1,
                                  !.requests = Append(@, request),
                                  !.answers = Append(@, LoopbackSendRequest(request, peer.id))]
    /\ UNCHANGED <<rxCount, lastRx>>
    /\ UNCHANGED <<transportVars, inboundVars, typedVars>>
    /\ UNCHANGED <<unknownNotificationHandler, disposables, connectionState, factories,
                   futures, nodeStream>>

\* the transport hands the next request to the channel holding the handler:
\* _processRequest calls handleRequest and awaits it
HandlerChannelTakes ==
    /\ peer.taken < Len(sent)
    /\ peer' = [peer EXCEPT !.taken = @ + 1, !.handling = @ \cup {peer.taken + 1}]
    /\ UNCHANGED <<outboundVars, sent>>
    /\ UNCHANGED <<transportVars, inboundVars, typedVars>>
    /\ UNCHANGED <<unknownNotificationHandler, disposables, connectionState, factories,
                   futures, nodeStream>>

\* handleRequest has settled for one of the requests taken: _processRequest
\* is resumed and sends the response
HandlerChannelResponds ==
    /\ \E i \in peer.handling :
          peer' = [peer EXCEPT !.handling = @ \ {i},
                               !.out = Append(@, ProcessRequestOfHandler(sent[i]))]
    /\ UNCHANGED <<outboundVars, sent>>
    /\ UNCHANGED <<transportVars, inboundVars, typedVars>>
    /\ UNCHANGED <<unknownNotificationHandler, disposables, connectionState, factories,
                   futures, nodeStream>>

\* the transport hands the next response to the caller's channel
CallerChannelTakes ==
    /\ rxCount < Len(peer.out)
    /\ LET message == peer.out[rxCount + 1] IN
          /\ rxCount' = rxCount + 1
          /\ lastRx' = message
          /\ ProcessResponse(message)
    /\ UNCHANGED <<lastUsedRequestId, sent>>
    /\ UNCHANGED <<transportVars, inboundVars, typedVars, otherVars>>

NextLoopback ==
    \/ SendRequestOnBoth
    \/ SendSucceeds
    \/ HandlerChannelTakes
    \/ HandlerChannelResponds
    \/ CallerChannelTakes

SpecLoopback == InitLoopback /\ [][NextLoopback]_vars

\* what the caller of the StreamBasedChannel's sendRequest call c observes
StreamObserved(c) ==
    IF calls[c].state = "resolved"
    THEN Observed("resolved", calls[c].from, "")
    ELSE Observed("rejected", NoResponseObject, calls[c].outcome)

\* C40.  When the handler returns, a request whose params are null or truthy
\* (an object, an array, a non-empty string) has the same outcome over the
\* pair of StreamBasedChannels as on the LoopbackChannel; a request whose
\* params are falsy and not null (undefined, the empty string) has over the
\* pair the outcome the LoopbackChannel gives for the same request with
\* params null.  When the handler raises, the LoopbackChannel's future fails
\* with the exception, and over the pair the caller gets the error object
\* internalError "An unexpected exception was thrown.".
C40_LoopbackAsStreamPair ==
    \A c \in 1..Len(calls) :
        calls[c].state # "pending" =>
            LET request == peer.requests[c] IN
            IF peer.answers[c].state = "rejected"
            THEN /\ peer.answers[c].exception = "Error: secret"
                 /\ calls[c].state = "resolved"
                 /\ calls[c].outcome = "error"
                 /\ calls[c].from.code = -32603
                 /\ calls[c].from.message = "An unexpected exception was thrown."
                 /\ calls[c].from.data = "undefined"
            ELSE IF request.params \in {"undefined", "emptyString"}
            THEN StreamObserved(c) =
                    LoopbackSendRequest([request EXCEPT !.params = "null"], c - 1)
            ELSE StreamObserved(c) = peer.answers[c]

\* C40 as stated: every request has the same outcome on both channels.
C40_Original ==
    \A c \in 1..Len(calls) :
        calls[c].state # "pending" => StreamObserved(c) = peer.answers[c]

\* two requests were answered on both channels: the handler returned the
\* params of the first and raised for the second
C40_Witness ==
    /\ Len(calls) = 2
    /\ peer.requests[1] = [method |-> "echo", params |-> "null"]
    /\ peer.requests[2].method = "raise"
    /\ calls[1].state = "resolved"
    /\ calls[2].state = "resolved"
    /\ peer.answers[2].state = "rejected"

=============================================================================
